---- MODULE Spec2Model ----
(***************************************************************************)
(* A state-machine model of the TIX core (tix-core):                       *)
(*   - state/connection.rs : ConnectionPhase, the validated lifecycle      *)
(*   - task/mod.rs         : Task / TaskPool, the cancellable timed pool   *)
(*   - network/connection.rs : Connection, writer / reader / heartbeat     *)
(*   - header.rs, packet.rs, codec/mod.rs : PacketHeader, Packet, TixCodec *)
(*   - state/master.rs     : MasterState, the table of tracked requests    *)
(*   - state/slave.rs      : SlaveState, the set of active tasks           *)
(*   - state/connection.rs : PeerCapabilities and their negotiation        *)
(*   - tix-master/src/master.rs : RequestManager, the request-id generator *)
(*   - rdp/transport.rs    : ScreenTransport, chunked frames over UDP      *)
(*   - rdp/delta.rs        : DeltaDetector, block-based change detection   *)
(*   - rdp/encoder.rs      : AdaptiveEncoder, its quality adjustment       *)
(*   - rdp/encoder.rs, rdp/decoder.rs, rdp/service.rs, rdp/client.rs :     *)
(*                           the capture pipeline from capture to apply    *)
(*   - rdp/bandwidth.rs    : BandwidthEstimator, its sliding window        *)
(*   - rdp/service.rs, tix-rdp-slave service.rs : ScreenService run / stop *)
(*   - rdp/client.rs       : ScreenClient run / stop                       *)
(*   - protocol/shell.rs, protocol/file.rs : classification of responses   *)
(*   - codec/mod.rs, network/connection.rs : the packet stream of a peer   *)
(* Each subsystem has its own variables and its own specification; the     *)
(* variables of the other subsystems stay at their initial value.          *)
(***************************************************************************)
EXTENDS Integers, Sequences, FiniteSets, TLC

VARIABLES
    \* ---- ConnectionPhase (state/connection.rs) ----
    phase,        \* the ConnectionPhase value: [kind, since]
    now,          \* the monotonic clock read by Instant::now()
    lastOp,       \* the transition method called last
    lastRet,      \* what it returned: "Ok" or "ProtocolViolation"
    \* ---- TaskPool (task/mod.rs) ----
    tasks,        \* TaskPool.tasks: request id -> tracked task (0: none)
    tpc,          \* per task: "unspawned", "running", "emitting", "done"
    treq,         \* per task: its req_id
    ttimeout,     \* per task: options.timeout (0: None)
    ttoken,       \* per task: its CancellationToken is cancelled
    texpired,     \* per task: tokio::time::sleep(dur) has elapsed
    toutbox,      \* per task: events it still has to send
    tsent,        \* per task: events it has put on the channel
    tsignal,      \* per task: "no", or the state in which cancel first hit it
    chan,         \* the pool's event channel (pool_tx -> pool_rx)
    inbox,        \* the event recv() returned, not yet processed
    ncb,          \* number of registered on_finished callbacks
    cbCalls,      \* the callback invocations of the last process_event
    cancelRet,    \* what the last cancel_task returned
    awaiting,     \* per request id: spawned, no event for it processed since
    \* ---- Connection (network/connection.rs) ----
    handle,       \* per sender handle: "absent", "idle", "blocked", "dropped"
    hpkt,         \* per sender handle: the packet its waiting send() holds
    nsent,        \* number of packets the application passed to send()
    outq,         \* the outbound queue (user_tx -> network_rx)
    enq,          \* application packets in the order they entered outq
    wpc,          \* writer task: "recv", "write", "failed", "closed"
    wpkt,         \* the packet the writer is writing
    hbpc,         \* heartbeat task: "tick", "blocked", "done"
    written,      \* application packets written to the stream, in order
    rpc,          \* reader task: "next", "blocked", "error", "eof", "closed"
    rpkt,         \* the packet the reader is waiting to queue
    arrived,      \* application packets decoded from the stream, in order
    inq,          \* the inbound queue (network_tx -> user_rx)
    got,          \* application packets recv() returned, in order
    recvNone,     \* recv() has returned None
    \* ---- Packet, PacketHeader, TixCodec (packet.rs, header.rs, codec) ----
    pargs,        \* the arguments of the last Packet constructor call
    pbuilt,       \* what the last Packet constructor returned
    pbytes,       \* the byte buffer: serialised output, or bytes of a peer
    psrc,         \* where pbytes came from: "none", "to_bytes", "input",
                  \* "stream" (more bytes arrived behind), "rest" (decode
                  \* took a frame off the front)
    pbefore,      \* the buffer as it was before the last decode call
    pdecoded,     \* what the last TixCodec::decode returned
    pparsed,      \* what the last Packet::from_bytes returned
    hparsed,      \* what the last PacketHeader::from_bytes returned
    \* ---- MasterState (state/master.rs) ----
    requests,        \* MasterState.requests: request id -> TrackedRequest
    default_timeout, \* MasterState.default_timeout: a Duration or NoDeadline
    mclock,          \* the monotonic clock read by Instant::now()
    mlast,           \* the call made last: [op, id, ret, at]; at is the
                     \* time of a check_timeouts or drain_expired call
    mbefore,         \* MasterState.requests as it was before that call
    mlive,           \* ids tracked and since neither resolved nor drained,
                     \* each with the packet it was tracked with last
    mapplied,        \* per request tracked by track(): the default timeout
                     \* that was configured when it was called
    \* ---- SlaveState (state/slave.rs) ----
    active_tasks,    \* SlaveState.active_tasks
    slast,           \* the call made last: [op, id, ret]
    sbefore,         \* SlaveState.active_tasks as it was before that call
    slive,           \* ids registered and not completed since
    scompleted,      \* ids that were completed at least once
    \* ---- PeerCapabilities (state/connection.rs, master.rs, slave.rs) ----
    master_local,       \* MasterState.local_capabilities
    master_negotiated,  \* MasterState.negotiated_capabilities
    master_args,        \* the local and remote record of the master's call
    slave_local,        \* SlaveState.local_capabilities
    slave_negotiated,   \* SlaveState.negotiated_capabilities
    slave_args,         \* the local and remote record of the slave's call
    \* ---- RequestManager (tix-master/src/master.rs) ----
    rm_requests,        \* RequestManager.requests: request id -> RequestState
    next_req_id,        \* RequestManager.next_req_id
    rm_issued,          \* the ids add_request returned, in call order
    rm_heartbeat,       \* the packet Packet::heartbeat returned last
    \* ---- ScreenTransport (rdp/transport.rs) ----
    t_mtu,              \* ScreenTransport.mtu, the same at both ends
    t_sequence,         \* the sender's ScreenTransport.sequence
    t_sent,             \* the send_frame calls made: [frame, seq, datagrams]
    net,                \* datagrams sent and not lost, deliverable in any
                        \* order and any number of times
    r_pc,               \* receive_frame: "idle", "header", "chunks", "done"
    r_header,           \* receive_frame: header
    r_chunks,           \* receive_frame: chunks, index -> payload or NoChunk
    r_received,         \* receive_frame: received
    r_result,           \* the EncodedFrame receive_frame returned
    r_first,            \* the datagram this receive_frame call read first
    r_seen,             \* the datagrams this call has read
    r_again,            \* whether this call read its first datagram again
    r_dup,              \* whether this call read a later datagram again
    r_order,            \* the chunk indices this call stored, as they came
    r_lost,             \* the datagrams that were lost
    \* ---- DeltaDetector (rdp/delta.rs) ----
    d_block_size,       \* DeltaDetector.block_size; 0 before construction
    d_previous,         \* DeltaDetector.previous_frame
    d_source,           \* format and row padding of the captured frames
    d_last,             \* the last call: its frame, the stored one, its result
    \* ---- AdaptiveEncoder (rdp/encoder.rs) ----
    compression_level,  \* AdaptiveEncoder.compression_level
    quality,            \* AdaptiveEncoder.quality
    target_bandwidth,   \* AdaptiveEncoder.target_bandwidth
    measured_bandwidth, \* AdaptiveEncoder.measured_bandwidth
    e_last,             \* the last call and the encoder before it
    \* ---- capture pipeline (rdp/service.rs, encoder.rs, decoder.rs, client.rs) ----
    s_pc,               \* where the sender is in its loop
    s_config,           \* block size and capture source of the service
    s_previous,         \* the service's DeltaDetector.previous_frame
    s_frame_number,     \* frame_number of ScreenService::run
    s_frame_count,      \* AdaptiveEncoder.frame_count
    s_delta,            \* the delta frame to encode, with its source frame
    wire,               \* the encoded frame in transit
    s_lost,             \* whether a frame was lost since the last one applied
    c_decoder,          \* the receiver's FrameDecoder
    c_last,             \* the last apply call and the decoder before it
    \* ---- BandwidthEstimator (rdp/bandwidth.rs) ----
    bw_samples,   \* BandwidthEstimator.samples: sequence of [when, bytes]
    bw_window,    \* BandwidthEstimator.window (0: not constructed)
    bw_total_bytes, \* BandwidthEstimator.total_bytes
    bw_history,   \* every sample recorded so far, in call order
    bw_last,      \* the call made last: [op, when, bytes]
    \* ---- ScreenService::run / stop (rdp/service.rs, tix-rdp-slave) ----
    sv_running,   \* ScreenService.running, the shared AtomicBool
    sv_pc,        \* the capture task: "none", "spawned", "loop", "capture",
                  \* "pace", "done" (returned Ok), "failed" (returned Err)
    sv_frame_number, \* run's frame_number, counted up to MaxSvcFrames
    sv_stop,      \* when stop was first signalled: "no", "before_start",
                  \* "after_start"
    sv_entered,   \* iterations begun since stop was first signalled
    ss_pc,        \* the slave session: "accept", "forward", "store", "await"
    ss_sessions,  \* sessions ended, counted up to MaxSessions
    \* ---- ScreenClient::run / stop (rdp/client.rs) ----
    cl_running,   \* ScreenClient.running, the shared AtomicBool
    cl_pc,        \* the client task: "none", "spawned", "loop", "receive",
                  \* "apply", "done" (returned Ok), "failed" (returned Err)
    cl_socket,    \* datagrams in the socket's buffer, not yet read
    cl_sent,      \* datagrams the sender has put on the network so far
    cl_stop,      \* when stop was first signalled: "no", "before_start",
                  \* "after_start"
    cl_frames,    \* frames receive_frame returned since stop was signalled
    \* ---- Shell / file response streams (protocol/shell.rs, file.rs) ----
    sh_rid,       \* the request id of the shell session (0: none)
    sh_stream,    \* the response packets sent for it, in order
    sh_done,      \* the exit status packet has been sent
    sh_any,       \* a received packet and its classification
    \* ---- a peer's packet stream through TixCodec (codec/mod.rs) ----
    st_sent,      \* the packets the peer has encoded, in order
    st_wire,      \* their bytes not yet read into the decode buffer
    st_buf,       \* the decode buffer (src)
    st_out,       \* the packets decode has yielded, in order
    st_err,       \* the error decode returned, which ends the reader
    st_seen       \* the longest buffer a decode call was given

phaseVars == <<phase, now, lastOp, lastRet>>

taskVars ==
    <<tasks, tpc, treq, ttimeout, ttoken, texpired, toutbox, tsent,
      tsignal, chan, inbox, ncb, cbCalls, cancelRet, awaiting>>

connVars ==
    <<handle, hpkt, nsent, outq, enq, wpc, wpkt, hbpc, written, rpc, rpkt,
      arrived, inq, got, recvNone>>

packetVars ==
    <<pargs, pbuilt, pbytes, psrc, pbefore, pdecoded, pparsed, hparsed>>

masterVars ==
    <<requests, default_timeout, mclock, mlast, mbefore, mlive, mapplied>>

slaveVars == <<active_tasks, slast, sbefore, slive, scompleted>>

capsVars ==
    <<master_local, master_negotiated, master_args, slave_local,
      slave_negotiated, slave_args>>

reqsVars ==
    <<rm_requests, next_req_id, rm_issued, rm_heartbeat>>

transVars ==
    <<t_mtu, t_sequence, t_sent, net, r_pc, r_header, r_chunks, r_received,
      r_result, r_first, r_seen, r_again, r_dup, r_order, r_lost>>

deltaVars ==
    <<d_block_size, d_previous, d_source, d_last>>

encVars ==
    <<compression_level, quality, target_bandwidth, measured_bandwidth,
      e_last>>

screenVars ==
    <<s_pc, s_config, s_previous, s_frame_number, s_frame_count, s_delta,
      wire, s_lost, c_decoder, c_last>>

bwVars ==
    <<bw_samples, bw_window, bw_total_bytes, bw_history, bw_last>>

svcVars ==
    <<sv_running, sv_pc, sv_frame_number, sv_stop, sv_entered, ss_pc,
      ss_sessions>>

cliVars ==
    <<cl_running, cl_pc, cl_socket, cl_sent, cl_stop, cl_frames>>

shellVars ==
    <<sh_rid, sh_stream, sh_done, sh_any>>

streamVars ==
    <<st_sent, st_wire, st_buf, st_out, st_err, st_seen>>

vars ==
    <<phaseVars, taskVars, connVars, packetVars, masterVars, slaveVars,
      capsVars, reqsVars, transVars, deltaVars, encVars, screenVars,
      bwVars, svcVars, cliVars, shellVars, streamVars>>

\* A step of one subsystem leaves the variables of the others alone.
PhaseOnly ==
    UNCHANGED <<taskVars, connVars, packetVars, masterVars, slaveVars,
                capsVars, reqsVars, transVars, deltaVars, encVars,
                screenVars, bwVars, svcVars, cliVars, shellVars,
                streamVars>>
TaskOnly ==
    UNCHANGED <<phaseVars, connVars, packetVars, masterVars, slaveVars,
                capsVars, reqsVars, transVars, deltaVars, encVars,
                screenVars, bwVars, svcVars, cliVars, shellVars,
                streamVars>>
ConnOnly ==
    UNCHANGED <<phaseVars, taskVars, packetVars, masterVars, slaveVars,
                capsVars, reqsVars, transVars, deltaVars, encVars,
                screenVars, bwVars, svcVars, cliVars, shellVars,
                streamVars>>
PacketOnly ==
    UNCHANGED <<phaseVars, taskVars, connVars, masterVars, slaveVars,
                capsVars, reqsVars, transVars, deltaVars, encVars,
                screenVars, bwVars, svcVars, cliVars, shellVars,
                streamVars>>
MasterOnly ==
    UNCHANGED <<phaseVars, taskVars, connVars, packetVars, slaveVars,
                capsVars, reqsVars, transVars, deltaVars, encVars,
                screenVars, bwVars, svcVars, cliVars, shellVars,
                streamVars>>
SlaveOnly ==
    UNCHANGED <<phaseVars, taskVars, connVars, packetVars, masterVars,
                capsVars, reqsVars, transVars, deltaVars, encVars,
                screenVars, bwVars, svcVars, cliVars, shellVars,
                streamVars>>
CapsOnly ==
    UNCHANGED <<phaseVars, taskVars, connVars, packetVars, masterVars,
                slaveVars, reqsVars, transVars, deltaVars, encVars,
                screenVars, bwVars, svcVars, cliVars, shellVars,
                streamVars>>
ReqsOnly ==
    UNCHANGED <<phaseVars, taskVars, connVars, packetVars, masterVars,
                slaveVars, capsVars, transVars, deltaVars, encVars,
                screenVars, bwVars, svcVars, cliVars, shellVars,
                streamVars>>
TransOnly ==
    UNCHANGED <<phaseVars, taskVars, connVars, packetVars, masterVars,
                slaveVars, capsVars, reqsVars, deltaVars, encVars,
                screenVars, bwVars, svcVars, cliVars, shellVars,
                streamVars>>
DeltaOnly ==
    UNCHANGED <<phaseVars, taskVars, connVars, packetVars, masterVars,
                slaveVars, capsVars, reqsVars, transVars, encVars,
                screenVars, bwVars, svcVars, cliVars, shellVars,
                streamVars>>
EncOnly ==
    UNCHANGED <<phaseVars, taskVars, connVars, packetVars, masterVars,
                slaveVars, capsVars, reqsVars, transVars, deltaVars,
                screenVars, bwVars, svcVars, cliVars, shellVars,
                streamVars>>
ScreenOnly ==
    UNCHANGED <<phaseVars, taskVars, connVars, packetVars, masterVars,
                slaveVars, capsVars, reqsVars, transVars, deltaVars,
                encVars, bwVars, svcVars, cliVars, shellVars, streamVars>>
BwOnly ==
    UNCHANGED <<phaseVars, taskVars, connVars, packetVars, masterVars,
                slaveVars, capsVars, reqsVars, transVars, deltaVars,
                encVars, screenVars, svcVars, cliVars, shellVars,
                streamVars>>
SvcOnly ==
    UNCHANGED <<phaseVars, taskVars, connVars, packetVars, masterVars,
                slaveVars, capsVars, reqsVars, transVars, deltaVars,
                encVars, screenVars, bwVars, cliVars, shellVars,
                streamVars>>
CliOnly ==
    UNCHANGED <<phaseVars, taskVars, connVars, packetVars, masterVars,
                slaveVars, capsVars, reqsVars, transVars, deltaVars,
                encVars, screenVars, bwVars, svcVars, shellVars,
                streamVars>>
ShellOnly ==
    UNCHANGED <<phaseVars, taskVars, connVars, packetVars, masterVars,
                slaveVars, capsVars, reqsVars, transVars, deltaVars,
                encVars, screenVars, bwVars, svcVars, cliVars, streamVars>>
StreamOnly ==
    UNCHANGED <<phaseVars, taskVars, connVars, packetVars, masterVars,
                slaveVars, capsVars, reqsVars, transVars, deltaVars,
                encVars, screenVars, bwVars, svcVars, cliVars, shellVars>>

\* ------------------------------------------------------------------------
\* Bounds of the model
\* ------------------------------------------------------------------------

\* The clock stops advancing after this many ticks.
MaxClock == 3

\* Number of tasks spawned on the pool in one run.
MaxTasks == 2

\* Slots of the pool's event channel in the model (the code has 1024; the
\* model keeps the channel bounded and small so that a full channel occurs).
EventCap == 1

\* Number of on_finished callbacks registered in one run.
MaxCallbacks == 1

\* Number of tasks spawned in the runs checked for progress (at most MaxTasks).
MaxFairTasks == 1

\* Slots of the Connection's outbound queue in the model (the code has 128).
OutCap == 2

\* Slots of the Connection's inbound queue in the model (the code has 128).
InCap == 1

\* Number of packets the application passes to send() in one run.
MaxSend == 2

\* Number of packets, heartbeats aside, the peer sends in one run.
MaxPeerSend == 2

\* The payload cap in the model, in bytes (the code has 256 * 1024): a frame
\* with a payload and a whole frame behind it fit in one buffer.
MAX_PAYLOAD_SIZE == 7

\* Payloads up to this length are tried with every content.
MaxVaried == 2

\* Last value of the clock MasterState reads.
MaxMasterClock == 2

\* Longest deadline given to a tracked request.
MaxDeadline == 1

\* Number of task ids the slave registers.
MaxTaskId == 3

\* Largest max_payload_size a peer advertises.
MaxCapPayload == 1

\* Number of add_request calls in one run (the counter is a u64).
MaxRequests == 4

\* The default MTU in the model, in bytes (the code has 1400), and the
\* largest one given to with_mtu.
DEFAULT_MTU == 8

\* Longest frame data handed to send_frame: DEFAULT_MTU - ChunkHeader::SIZE
\* bytes, so that a full chunk datagram is as long as a frame header, as it
\* is in the code (1400 bytes against 33).
MaxData == 5

\* Largest tile size a DeltaDetector is built with.
MaxBlockSize == 2

\* Largest x, y, w and h in the block headers of a delta payload handed to
\* FrameDecoder::apply (the frame buffers are 2 x 1 and 1 x 2).
MaxCoord == 2

\* Largest bandwidth measured, in bytes per second.
MaxMeasured == 12

\* The latest instant given to record_at, and the number of record_at
\* calls in one run.
MaxInstant == 4
MaxRecords == 3

\* The frames run counts and the sessions of the slave in one run.
MaxSvcFrames == 2
MaxSessions == 2

\* The datagrams that reach the client's socket in one run.
MaxDatagrams == 4

\* The output chunks of one shell session.
MaxChunks == 2

\* The packets a peer sends on one connection.
MaxStreamPackets == 2

\* ========================================================================
\* ConnectionPhase  (src/tix-core/src/state/connection.rs)
\* ========================================================================

\* Instant::now() is never 0 in the model; 0 stands for "no instant", the
\* value of `since` in the variants that carry none.
NoInstant == 0

PhaseKinds ==
    {"Disconnected", "Connecting", "Handshaking", "Connected", "Disconnecting"}

Disconnected == [kind |-> "Disconnected", since |-> NoInstant]
Connecting == [kind |-> "Connecting", since |-> NoInstant]
Handshaking == [kind |-> "Handshaking", since |-> NoInstant]
Disconnecting == [kind |-> "Disconnecting", since |-> NoInstant]
Connected(t) == [kind |-> "Connected", since |-> t]

\* Result<(), TixError> of a transition, with the phase it leaves behind.
Ok(p) == [phase |-> p, ret |-> "Ok"]
ProtocolViolation(p) == [phase |-> p, ret |-> "ProtocolViolation"]

is_connected(p) == p.kind = "Connected"
is_disconnected(p) == p.kind = "Disconnected"

begin_connect(p) ==
    IF p.kind = "Disconnected" THEN Ok(Connecting) ELSE ProtocolViolation(p)

begin_handshake(p) ==
    IF p.kind = "Connecting" THEN Ok(Handshaking) ELSE ProtocolViolation(p)

complete_handshake(p, t) ==
    IF p.kind = "Handshaking" THEN Ok(Connected(t)) ELSE ProtocolViolation(p)

begin_disconnect(p) ==
    IF p.kind \in {"Handshaking", "Connected"}
    THEN Ok(Disconnecting)
    ELSE ProtocolViolation(p)

\* A slip that would let a validated operation leave Connected abruptly.
finish_disconnect_AlsoFromConnected(p) ==
    IF p.kind \in {"Disconnecting", "Connecting", "Handshaking", "Connected"}
    THEN Ok(Disconnected)
    ELSE ProtocolViolation(p)

finish_disconnect(p) ==
    IF p.kind \in {"Disconnecting", "Connecting", "Handshaking"}
    THEN Ok(Disconnected)
    ELSE ProtocolViolation(p)

\* A slip that would make the forced reset validate like finish_disconnect.
force_disconnect_Validated(p) ==
    IF p.kind = "Connected" THEN ProtocolViolation(p) ELSE Ok(Disconnected)

force_disconnect(p) ==
    Ok(Disconnected)

\* A caller invokes one transition method on the phase.
PhaseCall(op, r) ==
    /\ phase' = r.phase
    /\ lastRet' = r.ret
    /\ lastOp' = op
    /\ UNCHANGED now
    /\ PhaseOnly

BeginConnect == PhaseCall("begin_connect", begin_connect(phase))
BeginHandshake == PhaseCall("begin_handshake", begin_handshake(phase))
CompleteHandshake ==
    PhaseCall("complete_handshake", complete_handshake(phase, now))
BeginDisconnect == PhaseCall("begin_disconnect", begin_disconnect(phase))
FinishDisconnect == PhaseCall("finish_disconnect", finish_disconnect(phase))
ForceDisconnect == PhaseCall("force_disconnect", force_disconnect(phase))

\* Time passes between calls.
ClockTick ==
    /\ now < MaxClock + 1
    /\ now' = now + 1
    /\ lastOp' = "tick"
    /\ UNCHANGED <<phase, lastRet>>
    /\ PhaseOnly

\* ConnectionPhase is a public enum: a caller may start from any variant
\* (ConnectionPhase::default() is Disconnected).
PhaseInit ==
    /\ now = 1
    /\ phase \in {Disconnected, Connecting, Handshaking, Disconnecting,
                  Connected(1)}
    /\ lastOp = "new"
    /\ lastRet = "Ok"

PhaseNext ==
    \/ BeginConnect
    \/ BeginHandshake
    \/ CompleteHandshake
    \/ BeginDisconnect
    \/ FinishDisconnect
    \/ ForceDisconnect
    \/ ClockTick

\* The phase as a freshly constructed state holds it.
PhaseIdle ==
    /\ now = 1
    /\ phase = Disconnected
    /\ lastOp = "new"
    /\ lastRet = "Ok"

\* ========================================================================
\* Task / TaskPool  (src/tix-core/src/task/mod.rs)
\* ========================================================================

\* The spawned tasks, in spawn order.
TaskIds == 1..MaxTasks

\* Request ids callers pass to spawn; two tasks may be given the same id.
ReqIds == {1, 2}

\* Values of TaskOptions.timeout other than None.
Durations == {10}

NoTimeout == 0

\* TaskEvent, with the sending task recorded next to it.
NoEvent == [kind |-> "None", id |-> 0, dur |-> 0, task |-> 0]
Finished(id, t) == [kind |-> "Finished", id |-> id, dur |-> 0, task |-> t]
ErrorCancelled(id, t) ==
    [kind |-> "Cancelled", id |-> id, dur |-> 0, task |-> t]
ErrorTimeout(id, d, t) ==
    [kind |-> "Timeout", id |-> id, dur |-> d, task |-> t]

\* A slip: the select polls the work future before the token and the timer.
SelectOutcome_WorkFirst(cancelled, timeout, slept, workReady) ==
    IF workReady THEN "Work"
    ELSE IF cancelled THEN "Cancelled"
    ELSE IF timeout # NoTimeout /\ slept THEN "Timeout"
    ELSE "Pending"

\* A slip: the timer branch is polled before the cancellation token.
SelectOutcome_TimerFirst(cancelled, timeout, slept, workReady) ==
    IF timeout # NoTimeout /\ slept THEN "Timeout"
    ELSE IF cancelled THEN "Cancelled"
    ELSE IF workReady THEN "Work"
    ELSE "Pending"

\* tokio::select! { biased; cancelled => .., sleep(dur) => .., work => .. }
\* (the sleep branch exists only in the Some(dur) arm).
SelectOutcome(cancelled, timeout, slept, workReady) ==
    IF cancelled THEN "Cancelled"
    ELSE IF timeout # NoTimeout /\ slept THEN "Timeout"
    ELSE IF workReady THEN "Work"
    ELSE "Pending"

\* A slip: the cancellation branch lacks its `return` and falls through to
\* the final send of Finished.
EventsSent_NoReturn(outcome, id, d, t) ==
    IF outcome = "Cancelled" THEN <<ErrorCancelled(id, t), Finished(id, t)>>
    ELSE IF outcome = "Timeout" THEN <<ErrorTimeout(id, d, t)>>
    ELSE <<Finished(id, t)>>

\* The events the spawned future sends once the select has resolved.
EventsSent(outcome, id, d, t) ==
    IF outcome = "Cancelled" THEN <<ErrorCancelled(id, t)>>
    ELSE IF outcome = "Timeout" THEN <<ErrorTimeout(id, d, t)>>
    ELSE <<Finished(id, t)>>

\* Task::cancel on a task: token.cancel(). The first signal is remembered
\* together with whether the task's race was still open.
Signalled(S) ==
    /\ ttoken' = [t \in TaskIds |-> ttoken[t] \/ t \in S]
    /\ tsignal' = [t \in TaskIds |->
                     IF t \in S /\ tsignal[t] = "no"
                     THEN (IF tpc[t] = "running" THEN "open" ELSE "resolved")
                     ELSE tsignal[t]]

\* self.tasks.insert(req_id, task): HashMap::insert replaces the entry of a
\* key already present, and the Task it held is dropped (its JoinHandle
\* detaches the future, its token is dropped without being cancelled).
tasks_insert_KeepExisting(map, id, t) ==
    IF map[id] # 0 THEN map ELSE [map EXCEPT ![id] = t]

tasks_insert(map, id, t) == [map EXCEPT ![id] = t]

\* TaskPool::spawn_with_options / spawn / spawn_boxed(_with_options):
\* Task::spawn, then tasks.insert(req_id, task).
Spawn(id, d) ==
    /\ \E t \in TaskIds :
          /\ tpc[t] = "unspawned"
          /\ \A u \in TaskIds : u < t => tpc[u] # "unspawned"
          /\ tpc' = [tpc EXCEPT ![t] = "running"]
          /\ treq' = [treq EXCEPT ![t] = id]
          /\ ttimeout' = [ttimeout EXCEPT ![t] = d]
          /\ tasks' = tasks_insert(tasks, id, t)
    /\ awaiting' = [awaiting EXCEPT ![id] = TRUE]
    /\ UNCHANGED <<ttoken, texpired, toutbox, tsent, tsignal, chan, inbox,
                   ncb, cbCalls, cancelRet>>
    /\ TaskOnly

\* A slip: cancel_task reports true without looking the id up.
CancelTask_AlwaysTrue(id) ==
    /\ cancelRet' = "true"
    /\ Signalled(IF tasks[id] # 0 THEN {tasks[id]} ELSE {})
    /\ UNCHANGED <<tasks, tpc, treq, ttimeout, texpired, toutbox,
                   tsent, chan, inbox, ncb, cbCalls, awaiting>>
    /\ TaskOnly

\* TaskPool::cancel_task
CancelTask(id) ==
    /\ IF tasks[id] # 0
       THEN /\ Signalled({tasks[id]})
            /\ cancelRet' = "true"
       ELSE /\ cancelRet' = "false"
            /\ UNCHANGED <<ttoken, tsignal>>
    /\ UNCHANGED <<tasks, tpc, treq, ttimeout, texpired, toutbox,
                   tsent, chan, inbox, ncb, cbCalls, awaiting>>
    /\ TaskOnly

\* TaskPool::cancel_all
CancelAll ==
    /\ Signalled({tasks[id] : id \in {i \in ReqIds : tasks[i] # 0}})
    /\ UNCHANGED <<tasks, tpc, treq, ttimeout, texpired, toutbox,
                   tsent, chan, inbox, ncb, cbCalls, cancelRet,
                   awaiting>>
    /\ TaskOnly

\* The timer of tokio::time::sleep(dur) elapses.
DeadlineFire(t) ==
    /\ tpc[t] = "running"
    /\ ttimeout[t] # NoTimeout
    /\ ~texpired[t]
    /\ texpired' = [texpired EXCEPT ![t] = TRUE]
    /\ UNCHANGED <<tasks, tpc, treq, ttimeout, ttoken, toutbox, tsent,
                   tsignal, chan, inbox, ncb, cbCalls, cancelRet,
                   awaiting>>
    /\ TaskOnly

\* The runtime polls the spawned future and its select resolves; workReady
\* tells whether the body (the work future) returns Ready in this poll.
Poll(t, workReady) ==
    /\ tpc[t] = "running"
    /\ LET o == SelectOutcome(ttoken[t], ttimeout[t], texpired[t], workReady)
       IN  /\ o # "Pending"
           /\ toutbox' = [toutbox EXCEPT
                            ![t] = EventsSent(o, treq[t], ttimeout[t], t)]
    /\ tpc' = [tpc EXCEPT ![t] = "emitting"]
    /\ UNCHANGED <<tasks, treq, ttimeout, ttoken, texpired, tsent,
                   tsignal, chan, inbox, ncb, cbCalls, cancelRet,
                   awaiting>>
    /\ TaskOnly

\* event_tx.send(event).await: waits while the channel is full.
Emit(t) ==
    /\ tpc[t] = "emitting"
    /\ Len(chan) < EventCap
    /\ chan' = Append(chan, Head(toutbox[t]))
    /\ tsent' = [tsent EXCEPT ![t] = Append(tsent[t], Head(toutbox[t]))]
    /\ toutbox' = [toutbox EXCEPT ![t] = Tail(toutbox[t])]
    /\ tpc' = [tpc EXCEPT
                 ![t] = IF Len(toutbox[t]) = 1 THEN "done" ELSE "emitting"]
    /\ UNCHANGED <<tasks, treq, ttimeout, ttoken, texpired, tsignal,
                   inbox, ncb, cbCalls, cancelRet, awaiting>>
    /\ TaskOnly

\* TaskPool::on_finished
OnFinished ==
    /\ ncb < MaxCallbacks
    /\ ncb' = ncb + 1
    /\ UNCHANGED <<tasks, tpc, treq, ttimeout, ttoken, texpired,
                   toutbox, tsent, tsignal, chan, inbox, cbCalls,
                   cancelRet, awaiting>>
    /\ TaskOnly

\* TaskPool::recv (and the recv of the loop in TaskPool::start)
Recv ==
    /\ inbox = NoEvent
    /\ chan # <<>>
    /\ inbox' = Head(chan)
    /\ chan' = Tail(chan)
    /\ UNCHANGED <<tasks, tpc, treq, ttimeout, ttoken, texpired,
                   toutbox, tsent, tsignal, ncb, cbCalls, cancelRet,
                   awaiting>>
    /\ TaskOnly

\* A slip: only Finished events reach the callbacks.
CallbackArgs_FinishedOnly(n, event) ==
    IF event.kind = "Finished" THEN [k \in 1..n |-> event.id] ELSE <<>>

\* for cb in &self.finished_callbacks { cb(*id) }: the argument each
\* registered callback is called with, in registration order.
CallbackArgs(n, event) ==
    [k \in 1..n |-> event.id]

\* A slip: an Error event leaves the task in the map.
Remaining_KeepFailed(map, event) ==
    IF event.kind = "Finished" THEN [map EXCEPT ![event.id] = 0] ELSE map

\* self.tasks.remove(id)
Remaining(map, event) ==
    [map EXCEPT ![event.id] = 0]

\* TaskPool::process_event, on the event recv() returned.
ProcessEvent ==
    /\ inbox # NoEvent
    /\ tasks' = Remaining(tasks, inbox)
    /\ cbCalls' = CallbackArgs(ncb, inbox)
    /\ inbox' = NoEvent
    /\ awaiting' = [awaiting EXCEPT ![inbox.id] = FALSE]
    /\ UNCHANGED <<tpc, treq, ttimeout, ttoken, texpired, toutbox,
                   tsent, tsignal, chan, ncb, cancelRet>>
    /\ TaskOnly

\* TaskPool::active_count
active_count == Cardinality({id \in ReqIds : tasks[id] # 0})

\* TaskPool::is_active
is_active(id) == tasks[id] # 0

\* TaskPool::new
TaskInit ==
    /\ tasks = [id \in ReqIds |-> 0]
    /\ tpc = [t \in TaskIds |-> "unspawned"]
    /\ treq = [t \in TaskIds |-> 0]
    /\ ttimeout = [t \in TaskIds |-> NoTimeout]
    /\ ttoken = [t \in TaskIds |-> FALSE]
    /\ texpired = [t \in TaskIds |-> FALSE]
    /\ toutbox = [t \in TaskIds |-> <<>>]
    /\ tsent = [t \in TaskIds |-> <<>>]
    /\ tsignal = [t \in TaskIds |-> "no"]
    /\ chan = <<>>
    /\ inbox = NoEvent
    /\ ncb = 0
    /\ cbCalls = <<>>
    /\ cancelRet = "none"
    /\ awaiting = [id \in ReqIds |-> FALSE]

TaskNext ==
    \/ \E id \in ReqIds, d \in Durations \cup {NoTimeout} : Spawn(id, d)
    \/ \E id \in ReqIds : CancelTask(id)
    \/ CancelAll
    \/ \E t \in TaskIds : DeadlineFire(t)
    \/ \E t \in TaskIds, workReady \in BOOLEAN : Poll(t, workReady)
    \/ \E t \in TaskIds : Emit(t)
    \/ Recv
    \/ ProcessEvent

\* The same pool with at most MaxFairTasks tasks spawned.
FairTaskNext ==
    \/ \E id \in ReqIds, d \in Durations \cup {NoTimeout} :
          tpc[MaxFairTasks] = "unspawned" /\ Spawn(id, d)
    \/ \E id \in ReqIds : CancelTask(id)
    \/ CancelAll
    \/ \E t \in TaskIds : DeadlineFire(t)
    \/ \E t \in TaskIds, workReady \in BOOLEAN : Poll(t, workReady)
    \/ \E t \in TaskIds : Emit(t)
    \/ Recv
    \/ ProcessEvent

\* The pool with its callbacks; tasks end by completion, cancel_all or timeout.
PoolNext ==
    \/ \E id \in ReqIds, d \in Durations \cup {NoTimeout} : Spawn(id, d)
    \/ CancelAll
    \/ \E t \in TaskIds : DeadlineFire(t)
    \/ \E t \in TaskIds, workReady \in BOOLEAN : Poll(t, workReady)
    \/ \E t \in TaskIds : Emit(t)
    \/ OnFinished
    \/ Recv
    \/ ProcessEvent

\* ========================================================================
\* Connection  (src/tix-core/src/network/connection.rs)
\* ========================================================================

\* The application's sender handles: Connection.tx, and one ConnectionSender
\* obtained from sender().
Handles == {"conn", "clone"}

\* Packet::heartbeat() carries request id 0; application packets carry the
\* ids 1, 2, ... in the order send() was called.
heartbeat == 0

\* No packet in hand.
NoPacket == -1

\* The application packets of a queue, heartbeats left out.
AppOnly(q) == SelectSeq(q, LAMBDA p : p # heartbeat)

\* A packet in hand as a sequence of application packets.
Held(p) == IF p = NoPacket \/ p = heartbeat THEN <<>> ELSE <<p>>

\* mpsc::Sender::send completes at once when a permit of the bounded channel
\* is free, and waits otherwise.
CanEnqueue_Unbounded(q, cap) == TRUE

CanEnqueue(q, cap) == Len(q) < cap

\* mpsc::Receiver::recv yields the oldest queued packet.
Dequeue_Newest(q) == [pkt |-> q[Len(q)], rest |-> SubSeq(q, 1, Len(q) - 1)]

Dequeue(q) == [pkt |-> Head(q), rest |-> Tail(q)]

\* network_rx lives as long as the writer task does.
WriterAlive == wpc \in {"recv", "write"}

\* network_tx lives as long as the reader task does.
ReaderAlive == rpc \in {"next", "blocked"}

\* user_rx lives as long as the Connection does.
ConnAlive == handle["conn"] # "dropped"

\* Every Sender of the outbound channel is gone: Connection.tx, the clones
\* given out by sender(), and heartbeat_tx, which the heartbeat task owns
\* until it returns.
AllSendersGone ==
    /\ handle["conn"] = "dropped"
    /\ handle["clone"] \in {"absent", "dropped"}
    /\ hbpc = "done"

\* Connection::send / ConnectionSender::send on handle h. The packet is
\* queued at once if a permit is free, the call waits if the queue is full,
\* and it returns ChannelClosed if the writer is gone.
ConnSend(h) ==
    /\ handle[h] = "idle"
    /\ nsent < MaxSend
    /\ nsent' = nsent + 1
    /\ IF ~WriterAlive
       THEN UNCHANGED <<handle, hpkt, outq, enq>>
       ELSE IF CanEnqueue(outq, OutCap)
       THEN /\ outq' = Append(outq, nsent + 1)
            /\ enq' = Append(enq, nsent + 1)
            /\ UNCHANGED <<handle, hpkt>>
       ELSE /\ handle' = [handle EXCEPT ![h] = "blocked"]
            /\ hpkt' = [hpkt EXCEPT ![h] = nsent + 1]
            /\ UNCHANGED <<outq, enq>>
    /\ UNCHANGED <<wpc, wpkt, hbpc, written, rpc, rpkt, arrived, inq, got,
                   recvNone>>
    /\ ConnOnly

\* A waiting send() on handle h gets its permit, or learns that the writer
\* is gone.
ConnSendResume(h) ==
    /\ handle[h] = "blocked"
    /\ IF ~WriterAlive
       THEN UNCHANGED <<outq, enq>>
       ELSE /\ CanEnqueue(outq, OutCap)
            /\ outq' = Append(outq, hpkt[h])
            /\ enq' = Append(enq, hpkt[h])
    /\ handle' = [handle EXCEPT ![h] = "idle"]
    /\ hpkt' = [hpkt EXCEPT ![h] = NoPacket]
    /\ UNCHANGED <<nsent, wpc, wpkt, hbpc, written, rpc, rpkt, arrived, inq,
                   got, recvNone>>
    /\ ConnOnly

\* Connection::sender: clone the outbound Sender.
Sender ==
    /\ ConnAlive
    /\ handle["clone"] = "absent"
    /\ handle' = [handle EXCEPT !["clone"] = "idle"]
    /\ UNCHANGED <<hpkt, nsent, outq, enq, wpc, wpkt, hbpc, written, rpc,
                   rpkt, arrived, inq, got, recvNone>>
    /\ ConnOnly

\* The application drops its ConnectionSender.
DropSender ==
    /\ handle["clone"] = "idle"
    /\ handle' = [handle EXCEPT !["clone"] = "dropped"]
    /\ UNCHANGED <<hpkt, nsent, outq, enq, wpc, wpkt, hbpc, written, rpc,
                   rpkt, arrived, inq, got, recvNone>>
    /\ ConnOnly

\* The application drops the Connection: tx and rx go, and with rx the
\* packets still queued inbound.
DropConnection ==
    /\ handle["conn"] = "idle"
    /\ handle' = [handle EXCEPT !["conn"] = "dropped"]
    /\ inq' = <<>>
    /\ UNCHANGED <<hpkt, nsent, outq, enq, wpc, wpkt, hbpc, written, rpc,
                   rpkt, arrived, got, recvNone>>
    /\ ConnOnly

\* The heartbeat task: interval.tick() fires and heartbeat_tx.send() is
\* called; the task returns when the send fails.
HeartbeatTick ==
    /\ hbpc = "tick"
    /\ IF ~WriterAlive
       THEN hbpc' = "done" /\ UNCHANGED outq
       ELSE IF CanEnqueue(outq, OutCap)
       THEN outq' = Append(outq, heartbeat) /\ UNCHANGED hbpc
       ELSE hbpc' = "blocked" /\ UNCHANGED outq
    /\ UNCHANGED <<handle, hpkt, nsent, enq, wpc, wpkt, written, rpc, rpkt,
                   arrived, inq, got, recvNone>>
    /\ ConnOnly

\* The heartbeat task's waiting send gets its permit, or fails.
HeartbeatResume ==
    /\ hbpc = "blocked"
    /\ IF ~WriterAlive
       THEN hbpc' = "done" /\ UNCHANGED outq
       ELSE /\ CanEnqueue(outq, OutCap)
            /\ outq' = Append(outq, heartbeat)
            /\ hbpc' = "tick"
    /\ UNCHANGED <<handle, hpkt, nsent, enq, wpc, wpkt, written, rpc, rpkt,
                   arrived, inq, got, recvNone>>
    /\ ConnOnly

\* The writer task at network_rx.recv(): it takes the oldest packet, and
\* returns when the queue is empty and every Sender is gone.
WriterRecv ==
    /\ wpc = "recv"
    /\ IF outq # <<>>
       THEN /\ wpkt' = Dequeue(outq).pkt
            /\ outq' = Dequeue(outq).rest
            /\ wpc' = "write"
       ELSE /\ AllSendersGone
            /\ wpc' = "closed"
            /\ UNCHANGED <<wpkt, outq>>
    /\ UNCHANGED <<handle, hpkt, nsent, enq, hbpc, written, rpc, rpkt,
                   arrived, inq, got, recvNone>>
    /\ ConnOnly

\* net_writer.send(packet) completes: the packet is on the stream.
WriterWrite ==
    /\ wpc = "write"
    /\ written' = written \o Held(wpkt)
    /\ wpkt' = NoPacket
    /\ wpc' = "recv"
    /\ UNCHANGED <<handle, hpkt, nsent, outq, enq, hbpc, rpc, rpkt, arrived,
                   inq, got, recvNone>>
    /\ ConnOnly

\* net_writer.send(packet) fails: the writer task breaks out of its loop,
\* network_rx is dropped and what it still held is discarded.
WriterFail ==
    /\ wpc = "write"
    /\ wpc' = "failed"
    /\ wpkt' = NoPacket
    /\ outq' = <<>>
    /\ UNCHANGED <<handle, hpkt, nsent, enq, hbpc, written, rpc, rpkt,
                   arrived, inq, got, recvNone>>
    /\ ConnOnly

\* The reader task: net_reader.next() yields Ok(p) and network_tx.send(p) is
\* called; p is a heartbeat of the peer or the peer's next packet.
ReaderPacket(p) ==
    /\ rpc = "next"
    /\ \/ p = heartbeat
       \/ p = Len(arrived) + 1 /\ p <= MaxPeerSend
    /\ arrived' = arrived \o Held(p)
    /\ IF ~ConnAlive
       THEN rpc' = "closed" /\ UNCHANGED <<rpkt, inq>>
       ELSE IF CanEnqueue(inq, InCap)
       THEN inq' = Append(inq, p) /\ UNCHANGED <<rpc, rpkt>>
       ELSE rpc' = "blocked" /\ rpkt' = p /\ UNCHANGED inq
    /\ UNCHANGED <<handle, hpkt, nsent, outq, enq, wpc, wpkt, hbpc, written,
                   got, recvNone>>
    /\ ConnOnly

\* The reader's waiting send gets its permit, or learns that user_rx is gone.
ReaderResume ==
    /\ rpc = "blocked"
    /\ IF ~ConnAlive
       THEN rpc' = "closed" /\ UNCHANGED inq
       ELSE /\ CanEnqueue(inq, InCap)
            /\ inq' = Append(inq, rpkt)
            /\ rpc' = "next"
    /\ rpkt' = NoPacket
    /\ UNCHANGED <<handle, hpkt, nsent, outq, enq, wpc, wpkt, hbpc, written,
                   arrived, got, recvNone>>
    /\ ConnOnly

\* net_reader.next() yields Err(e) (a decode or I/O error) or None (the peer
\* closed): the reader task leaves its loop and network_tx is dropped.
ReaderFail(why) ==
    /\ rpc = "next"
    /\ rpc' = why
    /\ UNCHANGED <<handle, hpkt, nsent, outq, enq, wpc, wpkt, hbpc, written,
                   rpkt, arrived, inq, got, recvNone>>
    /\ ConnOnly

\* Connection::recv: the oldest queued packet, or None when the queue is
\* empty and the reader is gone.
ConnRecv ==
    /\ ConnAlive
    /\ ~recvNone
    /\ IF inq # <<>>
       THEN /\ got' = got \o Held(Dequeue(inq).pkt)
            /\ inq' = Dequeue(inq).rest
            /\ UNCHANGED recvNone
       ELSE /\ ~ReaderAlive
            /\ recvNone' = TRUE
            /\ UNCHANGED <<got, inq>>
    /\ UNCHANGED <<handle, hpkt, nsent, outq, enq, wpc, wpkt, hbpc, written,
                   rpc, rpkt, arrived>>
    /\ ConnOnly

\* Connection::new: both queues empty, the three tasks at the top of their
\* loops.
ConnInit ==
    /\ handle = [h \in Handles |-> IF h = "conn" THEN "idle" ELSE "absent"]
    /\ hpkt = [h \in Handles |-> NoPacket]
    /\ nsent = 0
    /\ outq = <<>>
    /\ enq = <<>>
    /\ wpc = "recv"
    /\ wpkt = NoPacket
    /\ hbpc = "tick"
    /\ written = <<>>
    /\ rpc = "next"
    /\ rpkt = NoPacket
    /\ arrived = <<>>
    /\ inq = <<>>
    /\ got = <<>>
    /\ recvNone = FALSE

ConnNext ==
    \/ \E h \in Handles : ConnSend(h)
    \/ \E h \in Handles : ConnSendResume(h)
    \/ Sender
    \/ DropSender
    \/ DropConnection
    \/ HeartbeatTick
    \/ HeartbeatResume
    \/ WriterRecv
    \/ WriterWrite
    \/ WriterFail
    \/ \E p \in 0..MaxPeerSend : ReaderPacket(p)
    \/ ReaderResume
    \/ \E why \in {"error", "eof"} : ReaderFail(why)
    \/ ConnRecv

\* ========================================================================
\* Packet and header  (src/tix-core/src/packet.rs, header.rs, flags.rs,
\*                     message.rs)
\* ========================================================================
\* A byte string is a sequence of cells. The header is six cells, one per
\* field in the order of the wire layout (the code's 64 bytes: 4 + 32 + 4 +
\* 8 + 8 + 8); every payload byte is one cell.

HeaderFields ==
    <<"magic", "checksum", "message_type", "flags", "request_id",
      "payload_length">>

HEADER_SIZE == Len(HeaderFields)

MAX_FRAME_SIZE == HEADER_SIZE + MAX_PAYLOAD_SIZE

\* The magic cell: b"TIX1", b"TIX0", and some other four bytes.
MAGIC == 1
LEGACY_MAGIC == 0
OtherMagic == 2

\* MessageType.
Command == "Command"
Response == "Response"

\* Command discriminants (message.rs).
Ping == 1
ShellExecute == 257

\* ProtocolFlags bits. The mask of the model is seven bits wide: the five
\* named flags, one bit no flag is assigned to, and the top bit, which
\* stands for bit 63 of the code's u64.
NONE == 0
COMPRESSED == 1
ENCRYPTED == 2
FINAL_FRAGMENT == 4
ACK_REQUESTED == 8
STREAMING == 16
UnassignedBit == 32
ResponseBit == 64

\* ProtocolFlags::all().bits(): the named flags.
AllFlags == COMPRESSED + ENCRYPTED + FINAL_FRAGMENT + ACK_REQUESTED + STREAMING

\* Bit b (a power of two) is set in mask f.
HasBit(f, b) == (f \div b) % 2 = 1

\* f | b and f & !b for a single bit b.
SetBit(f, b) == IF HasBit(f, b) THEN f ELSE f + b
ClearBit(f, b) == IF HasBit(f, b) THEN f - b ELSE f

\* ProtocolFlags::from_bits_truncate: the named flags are the low bits.
from_bits_truncate(f) == f % (AllFlags + 1)

\* The all-zero checksum.
ZeroChecksum == 0

RECURSIVE Digest(_)
Digest(s) == IF s = <<>> THEN 0 ELSE (Head(s) + 1) + 3 * Digest(Tail(s))

\* blake3::hash(payload): a function of the payload that tells payloads
\* apart and is never the all-zero digest.
Blake3(payload) == 1 + Digest(payload)

\* Results of the fallible functions.
OkPacket(p) == [kind |-> "Ok", pkt |-> p]
Fail(e) == [kind |-> "Err", err |-> e]
PayloadTooLarge(size) == [kind |-> "Err", err |-> "PayloadTooLarge", size |-> size]
NoArgs == [set |-> FALSE]
NeedMore == [kind |-> "None"]
NoResult == [kind |-> "none"]

\* PacketHeader::new: the command goes to message_type, a Response sets the
\* top bit of the flags, the checksum starts all zero.
PacketHeader_new_NoResponseBit(message_type, command, flags, request_id, payload_length) ==
    [magic |-> MAGIC,
     checksum |-> ZeroChecksum,
     message_type |-> command,
     flags |-> flags,
     request_id |-> request_id,
     payload_length |-> payload_length]

PacketHeader_new(message_type, command, flags, request_id, payload_length) ==
    [magic |-> MAGIC,
     checksum |-> ZeroChecksum,
     message_type |-> command,
     flags |-> IF message_type = Response THEN SetBit(flags, ResponseBit)
               ELSE flags,
     request_id |-> request_id,
     payload_length |-> payload_length]

\* Packet::build. A packet is its header's fields and its payload.
build(msg_type, request_id, command, payload, flags) ==
    IF Len(payload) > MAX_PAYLOAD_SIZE
    THEN PayloadTooLarge(Len(payload))
    ELSE LET header ==
                 PacketHeader_new(msg_type, command, flags, request_id,
                                  Len(payload))
             hash == IF payload # <<>> THEN Blake3(payload) ELSE ZeroChecksum
         IN  OkPacket([header |-> [header EXCEPT !.checksum = hash],
                       payload |-> payload])

\* PacketHeader::message_type and PacketHeader::flags.
message_type(header) ==
    IF HasBit(header.flags, ResponseBit) THEN Response ELSE Command

flags(header) == from_bits_truncate(ClearBit(header.flags, ResponseBit))

\* PacketHeader::command: Command::try_from(message_type).
Commands == {Ping, ShellExecute}

command(header) ==
    IF header.message_type \in Commands
    THEN [kind |-> "Ok", command |-> header.message_type]
    ELSE Fail("UnknownVariant")

\* Packet::validate_checksum.
validate_checksum_Always(p) == TRUE

validate_checksum(p) ==
    IF p.payload = <<>> THEN TRUE ELSE Blake3(p.payload) = p.header.checksum

\* PacketHeader::to_bytes: the magic written is the one the header holds.
header_to_bytes(header) ==
    <<header.magic, header.checksum, header.message_type, header.flags,
      header.request_id, header.payload_length>>

\* Packet::to_bytes.
to_bytes(p) ==
    IF Len(p.payload) > MAX_PAYLOAD_SIZE
    THEN PayloadTooLarge(Len(p.payload))
    ELSE [kind |-> "Ok", bytes |-> header_to_bytes(p.header) \o p.payload]

\* PacketHeader::from_bytes: the declared payload length is not examined.
header_from_bytes(bytes) ==
    IF Len(bytes) < HEADER_SIZE THEN Fail("InvalidHeader")
    ELSE IF bytes[1] # LEGACY_MAGIC /\ bytes[1] # MAGIC
    THEN Fail("InvalidMagic")
    ELSE [kind |-> "Ok",
          header |-> [magic |-> bytes[1], checksum |-> bytes[2],
                      message_type |-> bytes[3], flags |-> bytes[4],
                      request_id |-> bytes[5], payload_length |-> bytes[6]]]

\* Packet::from_bytes.
from_bytes(bytes) ==
    IF Len(bytes) < HEADER_SIZE THEN Fail("InvalidPacketLength")
    ELSE LET h == header_from_bytes(SubSeq(bytes, 1, HEADER_SIZE))
         IN  IF h.kind = "Err" THEN h
             ELSE IF Len(bytes) # HEADER_SIZE + h.header.payload_length
             THEN Fail("InvalidPacketLength")
             ELSE IF h.header.payload_length > MAX_PAYLOAD_SIZE
             THEN PayloadTooLarge(h.header.payload_length)
             ELSE OkPacket([header |-> h.header,
                            payload |->
                               SubSeq(bytes, HEADER_SIZE + 1, Len(bytes))])

\* TixCodec::decode on the buffer src: the result, and the buffer after the
\* call.
split_to_HeaderOnly(src, total) ==
    [frame |-> SubSeq(src, 1, total),
     rest |-> SubSeq(src, HEADER_SIZE + 1, Len(src))]

split_to(src, total) ==
    [frame |-> SubSeq(src, 1, total),
     rest |-> SubSeq(src, total + 1, Len(src))]

decode(src) ==
    IF Len(src) > MAX_FRAME_SIZE
    THEN [res |-> Fail("FrameTooLarge"), buf |-> src]
    ELSE IF Len(src) < HEADER_SIZE
    THEN [res |-> NeedMore, buf |-> src]
    ELSE LET h == header_from_bytes(SubSeq(src, 1, HEADER_SIZE))
         IN  IF h.kind = "Err" THEN [res |-> h, buf |-> src]
             ELSE LET payload_len == h.header.payload_length
                      total == HEADER_SIZE + payload_len
                      parts == split_to(src, total)
                      packet == from_bytes(parts.frame)
                  IN  IF payload_len > MAX_PAYLOAD_SIZE
                      THEN [res |-> PayloadTooLarge(payload_len), buf |-> src]
                      ELSE IF payload_len > 0
                              /\ h.header.checksum = ZeroChecksum
                      THEN [res |-> Fail("ProtocolViolation"), buf |-> src]
                      ELSE IF Len(src) < total
                      THEN [res |-> NeedMore, buf |-> src]
                      ELSE IF packet.kind = "Err"
                      THEN [res |-> packet, buf |-> parts.rest]
                      ELSE IF ~validate_checksum(packet.pkt)
                      THEN [res |-> Fail("ChecksumMismatch"),
                            buf |-> parts.rest]
                      ELSE [res |-> packet, buf |-> parts.rest]

\* ---- inputs ----

\* Payload bytes.
Cells == {0, 1}

\* All byte strings over Cells of length at most n.
RECURSIVE StringsUpTo(_)
StringsUpTo(n) ==
    IF n = 0 THEN {<<>>}
    ELSE LET shorter == StringsUpTo(n - 1)
         IN  shorter \cup {Append(s, c) : s \in shorter, c \in Cells}

\* A payload of n bytes.
Fill(n) == [i \in 1..n |-> 1]

\* Payloads handed to the constructors: every short one, one that is
\* exactly the cap and one that is one byte above it.
Payloads ==
    StringsUpTo(MaxVaried)
       \cup {Fill(MAX_PAYLOAD_SIZE), Fill(MAX_PAYLOAD_SIZE + 1)}

MessageTypes == {Command, Response}

PacketRequestIds == {1, 2}

\* The observable flag sets: every subset of the five named flags.
ObservableFlags == 0..AllFlags

\* Bytes a peer may send: any magic, a checksum that is zero, right or wrong
\* for the bytes that follow, a known or unknown command, flags with or
\* without the unassigned bit and the top bit, any declared length up to one
\* above the cap, followed by any bytes (fewer, as many, or more than
\* declared), and any initial part of such a string.
ChecksumChoice(which, payload) ==
    CASE which = "zero" -> ZeroChecksum
      [] which = "right" -> Blake3(payload)
      [] OTHER -> Blake3(payload) + 1

PeerFrames ==
    {<<magic, ChecksumChoice(which, payload), cmd, fl, 1, declared>> \o payload :
        magic \in {MAGIC, LEGACY_MAGIC, OtherMagic},
        which \in {"zero", "right", "wrong"},
        cmd \in {Ping, 0},
        fl \in {NONE, STREAMING + UnassignedBit, ResponseBit},
        declared \in 0..(MAX_PAYLOAD_SIZE + 1),
        payload \in Payloads}

PeerBytes ==
    PeerFrames \cup {SubSeq(b, 1, k) : b \in PeerFrames, k \in 0..HEADER_SIZE}

\* ---- actions ----

\* Every action that puts new bytes in the buffer forgets the results that
\* were computed from the old ones.
FreshBuffer ==
    /\ pbefore' = <<>>
    /\ pdecoded' = NoResult
    /\ pparsed' = NoResult
    /\ hparsed' = NoResult

\* Nothing was built or received yet.
Untouched == pbuilt = NoResult /\ psrc = "none"

\* Packet::new_command / new_response / new_*_with_flags.
PacketBuild(msg_type, request_id, cmd, payload, fl) ==
    /\ Untouched
    /\ pargs' = [set |-> TRUE, message_type |-> msg_type,
                 request_id |-> request_id, command |-> cmd,
                 payload |-> payload, flags |-> fl]
    /\ pbuilt' = build(msg_type, request_id, cmd, payload, fl)
    /\ pbytes' = <<>>
    /\ psrc' = "none"
    /\ FreshBuffer
    /\ PacketOnly

\* Packet::to_bytes / TixCodec::encode of the packet just built.
PacketToBytes ==
    /\ pbuilt.kind = "Ok"
    /\ psrc = "none"
    /\ LET r == to_bytes(pbuilt.pkt)
       IN  IF r.kind = "Ok"
           THEN pbytes' = r.bytes /\ psrc' = "to_bytes"
           ELSE pbytes' = <<>> /\ psrc' = "error"
    /\ FreshBuffer
    /\ UNCHANGED <<pargs, pbuilt>>
    /\ PacketOnly

\* Bytes arrive from a peer.
PacketInput(bytes) ==
    /\ Untouched
    /\ pbytes' = bytes
    /\ psrc' = "input"
    /\ UNCHANGED <<pargs, pbuilt>>
    /\ FreshBuffer
    /\ PacketOnly

\* More bytes arrive behind those already buffered, before anything was
\* done with them: a whole frame, or the beginning of one.
MoreBytes ==
    {<<MAGIC, ZeroChecksum, Ping, NONE, 1, 0>>,
     <<LEGACY_MAGIC, Blake3(<<1>>), Ping, NONE, 2, 1, 1>>,
     <<MAGIC, Blake3(<<0>>), Ping>>}

PacketMore(bytes) ==
    /\ psrc \in {"input", "to_bytes"}
    /\ pdecoded = NoResult /\ pparsed = NoResult /\ hparsed = NoResult
    /\ pbytes' = pbytes \o bytes
    /\ psrc' = "stream"
    /\ UNCHANGED <<pargs, pbuilt>>
    /\ FreshBuffer
    /\ PacketOnly

\* PacketHeader::from_bytes on the buffered bytes.
HeaderFromBytes ==
    /\ psrc \in {"input", "to_bytes", "stream", "rest"}
    /\ hparsed' = header_from_bytes(pbytes)
    /\ UNCHANGED <<pargs, pbuilt, pbytes, psrc, pbefore, pdecoded, pparsed>>
    /\ PacketOnly

\* Packet::from_bytes on the buffered bytes.
PacketFromBytes ==
    /\ psrc \in {"input", "to_bytes", "stream", "rest"}
    /\ pparsed' = from_bytes(pbytes)
    /\ UNCHANGED <<pargs, pbuilt, pbytes, psrc, pbefore, pdecoded, hparsed>>
    /\ PacketOnly

\* TixCodec::decode on the buffer.
PacketDecode ==
    /\ psrc \in {"input", "to_bytes", "stream", "rest"}
    /\ LET d == decode(pbytes)
       IN  /\ pdecoded' = d.res
           /\ pbytes' = d.buf
    /\ pbefore' = pbytes
    /\ psrc' = IF decode(pbytes).buf = pbytes THEN psrc ELSE "rest"
    /\ pparsed' = NoResult
    /\ hparsed' = NoResult
    /\ UNCHANGED <<pargs, pbuilt>>
    /\ PacketOnly

\* A packet obtained from from_bytes or from decode is serialised again
\* with Packet::to_bytes / TixCodec::encode.
PacketReEncode ==
    /\ \E r \in {pparsed, pdecoded} :
          /\ r.kind = "Ok"
          /\ LET b == to_bytes(r.pkt)
             IN  IF b.kind = "Ok"
                 THEN pbytes' = b.bytes /\ psrc' = "to_bytes"
                 ELSE pbytes' = <<>> /\ psrc' = "error"
    /\ pargs' = NoArgs
    /\ pbuilt' = NoResult
    /\ FreshBuffer
    /\ PacketOnly

PacketInit ==
    /\ pargs = NoArgs
    /\ pbuilt = NoResult
    /\ pbytes = <<>>
    /\ psrc = "none"
    /\ pbefore = <<>>
    /\ pdecoded = NoResult
    /\ pparsed = NoResult
    /\ hparsed = NoResult

\* The first step of a run builds a packet or receives bytes.
FirstIn(S) == IF Untouched THEN S ELSE {}

PacketNext ==
    \/ \E t \in FirstIn(MessageTypes), r \in PacketRequestIds, c \in Commands,
          p \in Payloads, f \in ObservableFlags : PacketBuild(t, r, c, p, f)
    \/ PacketToBytes
    \/ \E b \in FirstIn(PeerBytes) : PacketInput(b)
    \/ \E b \in MoreBytes : PacketMore(b)
    \/ HeaderFromBytes
    \/ PacketFromBytes
    \/ PacketDecode
    \/ PacketReEncode

\* ========================================================================
\* MasterState  (src/tix-core/src/state/master.rs)
\* ========================================================================

\* Option<Duration>::None.
NoDeadline == -1

Timeouts == 0..MaxDeadline

Deadlines == Timeouts \cup {NoDeadline}

RequestIds == {1, 2}

\* The packets handed to track.
TrackedPackets == {"ping", "shell"}

\* HashMap::insert and HashMap::remove.
Insert(map, key, value) ==
    [k \in DOMAIN map \cup {key} |-> IF k = key THEN value ELSE map[k]]

Remove(map, keys) == [k \in DOMAIN map \ keys |-> map[k]]

\* TrackedRequest::is_expired at time t.
is_expired_CurrentDefault(req, t) ==
    default_timeout # NoDeadline /\ t - req.sent_at > default_timeout

is_expired(req, t) ==
    req.deadline # NoDeadline /\ t - req.sent_at > req.deadline

\* MasterState::pending_count, is_request_pending, check_timeouts.
pending_count(reqs) == Cardinality(DOMAIN reqs)

is_request_pending(reqs, id) == id \in DOMAIN reqs

check_timeouts(reqs, t) == {id \in DOMAIN reqs : is_expired(reqs[id], t)}

\* check_timeouts takes &self: the table after the call.
AfterCheckTimeouts_Drained(reqs, t) == Remove(reqs, check_timeouts(reqs, t))

AfterCheckTimeouts(reqs, t) == reqs

\* What MasterState::resolve returns, and the table after it.
resolve_Keep(reqs, id) ==
    [ret |-> IF id \in DOMAIN reqs THEN reqs[id].packet ELSE "None",
     table |-> reqs]

resolve(reqs, id) ==
    [ret |-> IF id \in DOMAIN reqs THEN reqs[id].packet ELSE "None",
     table |-> Remove(reqs, {id})]

\* What MasterState::drain_expired returns, and the table after it.
drain_expired_All(reqs, t) ==
    [ret |-> reqs, table |-> Remove(reqs, DOMAIN reqs)]

drain_expired(reqs, t) ==
    LET expired_ids == check_timeouts(reqs, t)
    IN  [ret |-> [id \in expired_ids |-> reqs[id]],
         table |-> Remove(reqs, expired_ids)]

\* MasterState::set_default_timeout.
SetDefaultTimeout(timeout) ==
    /\ default_timeout' = timeout
    /\ mlast' = [op |-> "set_default_timeout"]
    /\ mbefore' = requests
    /\ UNCHANGED <<requests, mclock, mlive, mapplied>>
    /\ MasterOnly

\* MasterState::clear_default_timeout.
ClearDefaultTimeout ==
    /\ default_timeout' = NoDeadline
    /\ mlast' = [op |-> "clear_default_timeout"]
    /\ mbefore' = requests
    /\ UNCHANGED <<requests, mclock, mlive, mapplied>>
    /\ MasterOnly

\* MasterState::track_with_deadline: the entry replaces any earlier one.
TrackedRequest(packet, deadline) ==
    [packet |-> packet, sent_at |-> mclock, deadline |-> deadline]

TrackWithDeadline(request_id, packet, deadline) ==
    /\ requests' = Insert(requests, request_id, TrackedRequest(packet, deadline))
    /\ mlast' = [op |-> "track_with_deadline", id |-> request_id]
    /\ mbefore' = requests
    /\ mlive' = Insert(mlive, request_id, packet)
    /\ mapplied' = Remove(mapplied, {request_id})
    /\ UNCHANGED <<default_timeout, mclock>>
    /\ MasterOnly

\* MasterState::track: track_with_deadline with the default timeout.
Track(request_id, packet) ==
    /\ requests' =
          Insert(requests, request_id, TrackedRequest(packet, default_timeout))
    /\ mlast' = [op |-> "track", id |-> request_id]
    /\ mbefore' = requests
    /\ mlive' = Insert(mlive, request_id, packet)
    /\ mapplied' = Insert(mapplied, request_id, default_timeout)
    /\ UNCHANGED <<default_timeout, mclock>>
    /\ MasterOnly

\* MasterState::resolve.
Resolve(request_id) ==
    /\ LET r == resolve(requests, request_id)
       IN  /\ requests' = r.table
           /\ mlast' = [op |-> "resolve", id |-> request_id, ret |-> r.ret]
    /\ mbefore' = requests
    /\ mlive' = Remove(mlive, {request_id})
    /\ mapplied' = Remove(mapplied, {request_id})
    /\ UNCHANGED <<default_timeout, mclock>>
    /\ MasterOnly

\* MasterState::check_timeouts.
CheckTimeouts ==
    /\ mlast' = [op |-> "check_timeouts",
                 ret |-> check_timeouts(requests, mclock), at |-> mclock]
    /\ requests' = AfterCheckTimeouts(requests, mclock)
    /\ mbefore' = requests
    /\ UNCHANGED <<default_timeout, mclock, mlive, mapplied>>
    /\ MasterOnly

\* MasterState::drain_expired.
DrainExpired ==
    /\ LET r == drain_expired(requests, mclock)
       IN  /\ requests' = r.table
           /\ mlast' = [op |-> "drain_expired", ret |-> r.ret, at |-> mclock]
           /\ mlive' = Remove(mlive, DOMAIN r.ret)
           /\ mapplied' = Remove(mapplied, DOMAIN r.ret)
    /\ mbefore' = requests
    /\ UNCHANGED <<default_timeout, mclock>>
    /\ MasterOnly

\* Time passes between two calls.
MasterTick ==
    /\ mclock < MaxMasterClock
    /\ mclock' = mclock + 1
    /\ UNCHANGED <<requests, default_timeout, mlast, mbefore, mlive, mapplied>>
    /\ MasterOnly

\* MasterState::new.
MasterInit ==
    /\ requests = <<>>
    /\ default_timeout = NoDeadline
    /\ mclock = 0
    /\ mlast = [op |-> "new"]
    /\ mbefore = <<>>
    /\ mlive = <<>>
    /\ mapplied = <<>>

MasterNext ==
    \/ \E d \in Timeouts : SetDefaultTimeout(d)
    \/ ClearDefaultTimeout
    \/ \E id \in RequestIds, p \in TrackedPackets : Track(id, p)
    \/ \E id \in RequestIds, p \in TrackedPackets, d \in Deadlines :
          TrackWithDeadline(id, p, d)
    \/ \E id \in RequestIds : Resolve(id)
    \/ CheckTimeouts
    \/ DrainExpired
    \/ MasterTick

\* ========================================================================
\* SlaveState  (src/tix-core/src/state/slave.rs)
\* ========================================================================

SlaveTaskIds == 1..MaxTaskId

\* HashSet::insert and HashSet::remove: the set after the call, and whether
\* the call changed it.
register_task_AlwaysTrue(set, request_id) ==
    [ret |-> TRUE, set |-> set \cup {request_id}]

register_task(set, request_id) ==
    [ret |-> request_id \notin set, set |-> set \cup {request_id}]

complete_task(set, request_id) ==
    [ret |-> request_id \in set, set |-> set \ {request_id}]

active_task_count(set) == Cardinality(set)

is_task_running(set, request_id) == request_id \in set

\* SlaveState::register_task.
RegisterTask(request_id) ==
    /\ LET r == register_task(active_tasks, request_id)
       IN  /\ active_tasks' = r.set
           /\ slast' = [op |-> "register_task", id |-> request_id,
                        ret |-> r.ret]
    /\ sbefore' = active_tasks
    /\ slive' = slive \cup {request_id}
    /\ UNCHANGED scompleted
    /\ SlaveOnly

\* SlaveState::complete_task.
CompleteTask(request_id) ==
    /\ LET r == complete_task(active_tasks, request_id)
       IN  /\ active_tasks' = r.set
           /\ slast' = [op |-> "complete_task", id |-> request_id,
                        ret |-> r.ret]
           /\ scompleted' = IF r.ret THEN scompleted \cup {request_id}
                            ELSE scompleted
    /\ sbefore' = active_tasks
    /\ slive' = slive \ {request_id}
    /\ SlaveOnly

\* SlaveState::new.
SlaveInit ==
    /\ active_tasks = {}
    /\ slast = [op |-> "new"]
    /\ sbefore = {}
    /\ slive = {}
    /\ scompleted = {}

SlaveNext ==
    \/ \E id \in SlaveTaskIds : RegisterTask(id)
    \/ \E id \in SlaveTaskIds : CompleteTask(id)

\* ========================================================================
\* PeerCapabilities  (src/tix-core/src/state/connection.rs)
\* ========================================================================

\* Every capability record.
Capabilities ==
    [shell_streaming : BOOLEAN, file_delta_sync : BOOLEAN,
     screen_capture : BOOLEAN, compression : BOOLEAN,
     max_payload_size : 0..MaxCapPayload]

\* PeerCapabilities::default.
DefaultCapabilities ==
    [shell_streaming |-> TRUE, file_delta_sync |-> TRUE,
     screen_capture |-> TRUE, compression |-> TRUE,
     max_payload_size |-> MaxCapPayload]

\* u64::min.
Min(a, b) == IF a <= b THEN a ELSE b

\* PeerCapabilities::negotiate.
negotiate_LocalSize(self, remote) ==
    [shell_streaming |-> self.shell_streaming /\ remote.shell_streaming,
     file_delta_sync |-> self.file_delta_sync /\ remote.file_delta_sync,
     screen_capture |-> self.screen_capture /\ remote.screen_capture,
     compression |-> self.compression /\ remote.compression,
     max_payload_size |-> self.max_payload_size]

negotiate(self, remote) ==
    [shell_streaming |-> self.shell_streaming /\ remote.shell_streaming,
     file_delta_sync |-> self.file_delta_sync /\ remote.file_delta_sync,
     screen_capture |-> self.screen_capture /\ remote.screen_capture,
     compression |-> self.compression /\ remote.compression,
     max_payload_size |-> Min(self.max_payload_size, remote.max_payload_size)]

\* Option<PeerCapabilities>::None, and the call that was not made yet.
NotNegotiated == [set |-> FALSE]

Negotiated(caps) == [set |-> TRUE, caps |-> caps]

\* MasterState::set_local_capabilities, before the handshake.
MasterSetLocal(caps) ==
    /\ master_negotiated = NotNegotiated
    /\ master_local' = caps
    /\ UNCHANGED <<master_negotiated, master_args, slave_local,
                   slave_negotiated, slave_args>>
    /\ CapsOnly

\* SlaveState::set_local_capabilities, before the handshake.
SlaveSetLocal(caps) ==
    /\ slave_negotiated = NotNegotiated
    /\ slave_local' = caps
    /\ UNCHANGED <<master_local, master_negotiated, master_args,
                   slave_negotiated, slave_args>>
    /\ CapsOnly

\* MasterState::negotiate_capabilities with the capabilities the slave
\* advertises.
MasterNegotiate ==
    /\ master_negotiated = NotNegotiated
    /\ master_negotiated' = Negotiated(negotiate(master_local, slave_local))
    /\ master_args' = [set |-> TRUE, local |-> master_local,
                       remote |-> slave_local]
    /\ UNCHANGED <<master_local, slave_local, slave_negotiated, slave_args>>
    /\ CapsOnly

\* SlaveState::negotiate_capabilities with the capabilities the master
\* advertises.
SlaveNegotiate ==
    /\ slave_negotiated = NotNegotiated
    /\ slave_negotiated' = Negotiated(negotiate(slave_local, master_local))
    /\ slave_args' = [set |-> TRUE, local |-> slave_local,
                      remote |-> master_local]
    /\ UNCHANGED <<master_local, master_negotiated, master_args, slave_local>>
    /\ CapsOnly

\* MasterState::new and SlaveState::new.
CapsInit ==
    /\ master_local = DefaultCapabilities
    /\ master_negotiated = NotNegotiated
    /\ master_args = NotNegotiated
    /\ slave_local = DefaultCapabilities
    /\ slave_negotiated = NotNegotiated
    /\ slave_args = NotNegotiated

CapsNext ==
    \/ \E caps \in Capabilities : MasterSetLocal(caps)
    \/ \E caps \in Capabilities : SlaveSetLocal(caps)
    \/ MasterNegotiate
    \/ SlaveNegotiate

\* ========================================================================
\* RequestManager  (src/tix-master/src/master.rs)
\* ========================================================================

\* Command::Heartbeat.
Heartbeat == 4

\* enum RequestState.
RequestStates == {"WaitingForResponse", "Solved", "Failed"}

\* Packet::heartbeat.
heartbeat_packet ==
    [header |-> PacketHeader_new(Command, Heartbeat, NONE, 0, 0),
     payload |-> <<>>]

\* RequestManager::add_request: the id returned, the counter and the table
\* after the call.
add_request_FromLen(reqs, next, state) ==
    LET req_id == Cardinality(DOMAIN reqs) + 1
    IN  [ret |-> req_id, next |-> next + 1,
         requests |-> Insert(reqs, req_id, state)]

add_request(reqs, next, state) ==
    LET req_id == next
    IN  [ret |-> req_id, next |-> next + 1,
         requests |-> Insert(reqs, req_id, state)]

\* RequestManager::solve_request / fail_request: a request that is waiting
\* moves to the given state.
settle_request(reqs, req_id, state) ==
    IF req_id \in DOMAIN reqs /\ reqs[req_id] = "WaitingForResponse"
    THEN [ret |-> TRUE, requests |-> [reqs EXCEPT ![req_id] = state]]
    ELSE [ret |-> FALSE, requests |-> reqs]

\* RequestManager::add_request.
AddRequest(state) ==
    /\ Len(rm_issued) < MaxRequests
    /\ LET r == add_request(rm_requests, next_req_id, state)
       IN  /\ rm_requests' = r.requests
           /\ next_req_id' = r.next
           /\ rm_issued' = Append(rm_issued, r.ret)
    /\ UNCHANGED rm_heartbeat
    /\ ReqsOnly

\* RequestManager::remove_request.
RemoveRequest(req_id) ==
    /\ rm_requests' = Remove(rm_requests, {req_id})
    /\ UNCHANGED <<next_req_id, rm_issued, rm_heartbeat>>
    /\ ReqsOnly

\* RequestManager::solve_request.
SolveRequest(req_id) ==
    /\ rm_requests' = settle_request(rm_requests, req_id, "Solved").requests
    /\ UNCHANGED <<next_req_id, rm_issued, rm_heartbeat>>
    /\ ReqsOnly

\* RequestManager::fail_request.
FailRequest(req_id) ==
    /\ rm_requests' = settle_request(rm_requests, req_id, "Failed").requests
    /\ UNCHANGED <<next_req_id, rm_issued, rm_heartbeat>>
    /\ ReqsOnly

\* Packet::heartbeat, called by the heartbeat task of the connection.
BuildHeartbeat ==
    /\ rm_heartbeat' = OkPacket(heartbeat_packet)
    /\ UNCHANGED <<rm_requests, next_req_id, rm_issued>>
    /\ ReqsOnly

\* RequestManager::new.
ReqsInit ==
    /\ rm_requests = <<>>
    /\ next_req_id = 1
    /\ rm_issued = <<>>
    /\ rm_heartbeat = NoResult

ReqsNext ==
    \/ \E state \in RequestStates : AddRequest(state)
    \/ \E id \in 1..MaxRequests : RemoveRequest(id)
    \/ \E id \in 1..MaxRequests : SolveRequest(id)
    \/ \E id \in 1..MaxRequests : FailRequest(id)
    \/ BuildHeartbeat

\* ========================================================================
\* ScreenTransport  (src/tix-core/src/rdp/transport.rs)
\* ========================================================================

\* A datagram is its bytes; the model has one cell per header field, and
\* two for the 64-bit frame number, which a chunk header read over a frame
\* header cuts in the middle.
FrameHeaderFields ==
    <<"sequence", "frame_number (low word)", "frame_number (high word)",
      "timestamp_us", "width", "height", "is_full_frame", "total_chunks">>

ChunkHeaderFields == <<"sequence", "chunk_index", "chunk_size">>

\* FrameHeader::SIZE and ChunkHeader::SIZE.
FrameHeader_SIZE == Len(FrameHeaderFields)

ChunkHeader_SIZE == Len(ChunkHeaderFields)

\* u64::to_le_bytes and u64::from_le_bytes, in words: the low word comes
\* first on the wire. A word of the model has 8 bits where the code's has
\* 32, which keeps every decoded number within the range of the checker.
LowWord(n) == n % 256

HighWord(n) == (n \div 256) % 256

FromWords(low, high) == low + 256 * high

\* FrameHeader::encode and FrameHeader::decode.
FrameHeader_encode(h) ==
    <<h.sequence, LowWord(h.frame_number), HighWord(h.frame_number),
      h.timestamp_us, h.width, h.height,
      IF h.is_full_frame THEN 1 ELSE 0, h.total_chunks>>

FrameHeader_decode(data) ==
    IF Len(data) < FrameHeader_SIZE
    THEN [kind |-> "Err"]
    ELSE [kind |-> "Ok",
          header |-> [sequence |-> data[1],
                      frame_number |-> FromWords(data[2], data[3]),
                      timestamp_us |-> data[4], width |-> data[5],
                      height |-> data[6], is_full_frame |-> data[7] # 0,
                      total_chunks |-> data[8]]]

\* ChunkHeader::encode and ChunkHeader::decode.
ChunkHeader_encode(ch) == <<ch.sequence, ch.chunk_index, ch.chunk_size>>

ChunkHeader_decode(data) ==
    IF Len(data) < ChunkHeader_SIZE
    THEN [kind |-> "Err"]
    ELSE [kind |-> "Ok",
          header |-> [sequence |-> data[1], chunk_index |-> data[2],
                      chunk_size |-> data[3]]]

\* The MTUs with_mtu accepts: assert!(mtu > ChunkHeader::SIZE + 1).
with_mtu(mtu) == mtu > ChunkHeader_SIZE + 1

\* slice::chunks(n): the pieces of data, n bytes each but for the last.
RECURSIVE chunks(_, _)
chunks(data, n) ==
    IF data = <<>> THEN <<>>
    ELSE IF Len(data) <= n THEN <<data>>
    ELSE <<SubSeq(data, 1, n)>> \o chunks(SubSeq(data, n + 1, Len(data)), n)

\* The datagrams send_frame emits for frame with sequence number seq: the
\* frame header, then one datagram per chunk.
send_frame_WholeData(frame, seq, mtu) ==
    LET header == [sequence |-> seq, frame_number |-> frame.frame_number,
                   timestamp_us |-> 0, width |-> frame.width,
                   height |-> frame.height,
                   is_full_frame |-> frame.is_full_frame,
                   total_chunks |-> IF frame.data = <<>> THEN 0 ELSE 1]
    IN  <<FrameHeader_encode(header)>>
           \o (IF frame.data = <<>> THEN <<>>
               ELSE <<ChunkHeader_encode([sequence |-> seq, chunk_index |-> 0,
                                          chunk_size |-> Len(frame.data)])
                        \o frame.data>>)

send_frame(frame, seq, mtu) ==
    LET chunk_payload_max == mtu - ChunkHeader_SIZE
        total_chunks ==
            (Len(frame.data) + chunk_payload_max - 1) \div chunk_payload_max
        header == [sequence |-> seq, frame_number |-> frame.frame_number,
                   timestamp_us |-> 0, width |-> frame.width,
                   height |-> frame.height,
                   is_full_frame |-> frame.is_full_frame,
                   total_chunks |-> total_chunks]
        pieces == chunks(frame.data, chunk_payload_max)
    IN  <<FrameHeader_encode(header)>>
           \o [idx \in 1..Len(pieces) |->
                 ChunkHeader_encode([sequence |-> seq, chunk_index |-> idx - 1,
                                     chunk_size |-> Len(pieces[idx])])
                    \o pieces[idx]]

\* socket.recv_from(&mut buf) with buf of mtu + FrameHeader::SIZE bytes.
recv_from(datagram, mtu) ==
    SubSeq(datagram, 1, Min(Len(datagram), mtu + FrameHeader_SIZE))

\* chunks[idx] = None.
NoChunk == <<-1>>

\* The EncodedFrame receive_frame builds from its header and chunks (the
\* timestamp is the time of the call and block_count is 0).
RECURSIVE Flatten(_, _)
Flatten(cs, n) ==
    IF n = 0 THEN <<>>
    ELSE Flatten(cs, n - 1) \o (IF cs[n - 1] = NoChunk THEN <<>> ELSE cs[n - 1])

RECURSIVE Flatten_Descending(_, _)
Flatten_Descending(cs, n) ==
    IF n = 0 THEN <<>>
    ELSE (IF cs[n - 1] = NoChunk THEN <<>> ELSE cs[n - 1])
            \o Flatten_Descending(cs, n - 1)

Reassemble_Descending(header, cs) ==
    [frame_number |-> header.frame_number, width |-> header.width,
     height |-> header.height,
     data |-> Flatten_Descending(cs, header.total_chunks),
     is_full_frame |-> header.is_full_frame, block_count |-> 0]

Reassemble(header, cs) ==
    [frame_number |-> header.frame_number, width |-> header.width,
     height |-> header.height, data |-> Flatten(cs, header.total_chunks),
     is_full_frame |-> header.is_full_frame, block_count |-> 0]

\* The frames handed to send_frame: frame k has its own bytes, so that
\* bytes of different frames and different positions differ.
FrameData(k, n) == [i \in 1..n |-> 10 * k + i]

\* The frames sent in one run: a frame and the one after it.
FrameNumbers == {1, 2}

\* The lengths of the data sent: none, less than a full chunk, a full chunk.
DataLengths == {0, 3, MaxData}

\* The first frame of a stream is a full frame and the next one a delta.
TransFrames(k) ==
    {[frame_number |-> k, width |-> 2, height |-> 1, data |-> FrameData(k, n),
      is_full_frame |-> (k = 1), block_count |-> 1] : n \in DataLengths}

\* ScreenTransport::with_mtu, at construction.
WithMtu(mtu) ==
    /\ t_sent = <<>> /\ r_pc = "idle" /\ t_mtu = DEFAULT_MTU
    /\ with_mtu(mtu)
    /\ t_mtu' = mtu
    /\ UNCHANGED <<t_sequence, t_sent, net, r_pc, r_header, r_chunks,
                   r_received, r_result, r_first, r_seen, r_again, r_dup, r_order, r_lost>>
    /\ TransOnly

\* ScreenTransport::send_frame.
SendFrame(frame) ==
    /\ Len(t_sent) + 1 \in FrameNumbers
    /\ LET seq == t_sequence
           datagrams == send_frame(frame, seq, t_mtu)
       IN  /\ t_sequence' = t_sequence + 1
           /\ t_sent' = Append(t_sent, [frame |-> frame, seq |-> seq,
                                        datagrams |-> datagrams])
           /\ net' = net \cup {datagrams[i] : i \in 1..Len(datagrams)}
    /\ UNCHANGED <<t_mtu, r_pc, r_header, r_chunks, r_received, r_result,
                   r_first, r_seen, r_again, r_dup, r_order, r_lost>>
    /\ TransOnly

\* The network loses a datagram, once in a run.
Lose(datagram) ==
    /\ datagram \in net
    /\ r_lost = {}
    /\ net' = net \ {datagram}
    /\ r_lost' = r_lost \cup {datagram}
    /\ UNCHANGED <<t_mtu, t_sequence, t_sent, r_pc, r_header, r_chunks,
                   r_received, r_result, r_first, r_seen, r_again, r_dup, r_order>>
    /\ TransOnly

\* ScreenTransport::receive_frame is called.
ReceiveFrame ==
    /\ r_pc \in {"idle", "done"}
    /\ r_pc' = "header"
    /\ r_header' = NoResult
    /\ r_chunks' = <<>>
    /\ r_received' = 0
    /\ r_result' = NoResult
    /\ r_first' = <<>>
    /\ r_seen' = {}
    /\ r_again' = FALSE
    /\ r_dup' = FALSE
    /\ r_order' = <<>>
    /\ UNCHANGED <<t_mtu, t_sequence, t_sent, net, r_lost>>
    /\ TransOnly

\* receive_frame waits for a frame header: recv_from returns a datagram.
RecvHeader(datagram) ==
    /\ r_pc = "header"
    /\ datagram \in net
    /\ LET buf == recv_from(datagram, t_mtu)
           h == FrameHeader_decode(buf)
       IN  IF Len(buf) >= FrameHeader_SIZE /\ h.kind = "Ok"
           THEN /\ r_header' = h.header
                /\ r_chunks' = [i \in 0..(h.header.total_chunks - 1) |-> NoChunk]
                /\ r_received' = 0
                /\ IF h.header.total_chunks = 0
                   THEN /\ r_pc' = "done"
                        /\ r_result' = Reassemble(h.header, <<>>)
                   ELSE /\ r_pc' = "chunks"
                        /\ UNCHANGED r_result
           ELSE UNCHANGED <<r_pc, r_header, r_chunks, r_received, r_result>>
    /\ r_first' = IF r_first = <<>> THEN datagram ELSE r_first
    /\ r_seen' = r_seen \cup {datagram}
    /\ r_again' = (r_again \/ datagram = r_first)
    /\ r_dup' = (r_dup \/ (datagram \in r_seen /\ datagram # r_first))
    /\ UNCHANGED <<t_mtu, t_sequence, t_sent, net, r_order, r_lost>>
    /\ TransOnly

\* if ch.sequence != header.sequence { continue; }: a chunk is kept only when
\* it carries the sequence number of the frame header.
same_sequence_Any(ch, header) == TRUE

same_sequence(ch, header) == ch.sequence = header.sequence

\* receive_frame collects chunks: recv_from returns a datagram.
RecvChunk(datagram) ==
    /\ r_pc = "chunks"
    /\ datagram \in net
    /\ LET buf == recv_from(datagram, t_mtu)
           ch == ChunkHeader_decode(SubSeq(buf, 1, Min(Len(buf), ChunkHeader_SIZE)))
           total == r_header.total_chunks
       IN  IF \/ Len(buf) < ChunkHeader_SIZE
              \/ ch.kind = "Err"
              \/ ~same_sequence(ch.header, r_header)
              \/ ch.header.chunk_index >= total
              \/ r_chunks[ch.header.chunk_index] # NoChunk
           THEN UNCHANGED <<r_pc, r_chunks, r_received, r_result, r_order>>
           ELSE LET cs == [r_chunks EXCEPT ![ch.header.chunk_index] =
                              SubSeq(buf, ChunkHeader_SIZE + 1, Len(buf))]
                IN  /\ r_chunks' = cs
                    /\ r_order' = Append(r_order, ch.header.chunk_index)
                    /\ r_received' = r_received + 1
                    /\ IF r_received + 1 < total
                       THEN UNCHANGED <<r_pc, r_result>>
                       ELSE /\ r_pc' = "done"
                            /\ r_result' = Reassemble(r_header, cs)
    /\ r_seen' = r_seen \cup {datagram}
    /\ r_again' = (r_again \/ datagram = r_first)
    /\ r_dup' = (r_dup \/ (datagram \in r_seen /\ datagram # r_first))
    /\ UNCHANGED <<t_mtu, t_sequence, t_sent, net, r_header, r_first, r_lost>>
    /\ TransOnly

\* ScreenTransport::new at both ends; receive_frame not called yet.
TransInit ==
    /\ t_mtu = DEFAULT_MTU
    /\ t_sequence = 0
    /\ t_sent = <<>>
    /\ net = {}
    /\ r_pc = "idle"
    /\ r_header = NoResult
    /\ r_chunks = <<>>
    /\ r_received = 0
    /\ r_result = NoResult
    /\ r_first = <<>>
    /\ r_seen = {}
    /\ r_again = FALSE
    /\ r_dup = FALSE
    /\ r_order = <<>>
    /\ r_lost = {}

TransNext ==
    \/ \E mtu \in 1..DEFAULT_MTU : WithMtu(mtu)
    \/ \E frame \in TransFrames(Len(t_sent) + 1) : SendFrame(frame)
    \/ \E d \in net : Lose(d)
    \/ ReceiveFrame
    \/ \E d \in net : RecvHeader(d)
    \/ \E d \in net : RecvChunk(d)

\* ========================================================================
\* DeltaDetector  (src/tix-core/src/rdp/delta.rs, types.rs)
\* ========================================================================

\* Option::None for a frame.
NoFrame == [kind |-> "none"]

\* PixelFormat::bytes_per_pixel; a pixel of the model has two cells where
\* the code's has four bytes, and one where it has three.
bytes_per_pixel(format) == IF format = "Rgb8" THEN 1 ELSE 2

\* &data[from..to], with the code's offsets, which start at 0.
Slice(data, from, to) == SubSeq(data, from + 1, to)

\* DeltaDetector::block_differs: the rows of the tile, byte for byte.
block_differs_FirstRow(current, previous, start_x, start_y, end_x, end_y) ==
    LET bpp == bytes_per_pixel(current.format)
        row_offset == start_y * current.stride
    IN  Slice(current.data, row_offset + start_x * bpp, row_offset + end_x * bpp)
            # Slice(previous.data, row_offset + start_x * bpp,
                    row_offset + end_x * bpp)

block_differs(current, previous, start_x, start_y, end_x, end_y) ==
    LET bpp == bytes_per_pixel(current.format)
        stride == current.stride
    IN  \E y \in start_y..(end_y - 1) :
            LET row_offset == y * stride
                left == start_x * bpp
                right == end_x * bpp
            IN  Slice(current.data, row_offset + left, row_offset + right)
                    # Slice(previous.data, row_offset + left, row_offset + right)

\* The tiles of a w x h frame in the order of the two loops: row of tiles
\* by row of tiles, left to right, clipped at the right and bottom edges.
TilesOf(w, h, bs) ==
    LET blocks_x == (w + bs - 1) \div bs
        blocks_y == (h + bs - 1) \div bs
    IN  [k \in 1..(blocks_x * blocks_y) |->
            LET bx == (k - 1) % blocks_x
                by == (k - 1) \div blocks_x
                start_x == bx * bs
                start_y == by * bs
                end_x == Min(start_x + bs, w)
                end_y == Min(start_y + bs, h)
            IN  [x |-> start_x, y |-> start_y,
                 width |-> end_x - start_x, height |-> end_y - start_y]]

\* The block a full-frame delta carries.
WholeFrame(current) ==
    [x |-> 0, y |-> 0, width |-> current.width, height |-> current.height]

\* DeltaDetector::detect_blocks. The code compares the quotient of the two
\* counts, as f64, with 0.80; for counts below 2^50 the comparison is that
\* of 5 * changed with 4 * total.
detect_blocks_AtLeast(current, previous, bs) ==
    LET tiles == TilesOf(current.width, current.height, bs)
        changed == SelectSeq(tiles, LAMBDA b :
                       block_differs(current, previous, b.x, b.y,
                                     b.x + b.width, b.y + b.height))
        full_frame == changed # <<>> /\ 5 * Len(changed) >= 4 * Len(tiles)
    IN  [frame_number |-> 0, width |-> current.width, height |-> current.height,
         changed_blocks |-> IF full_frame THEN <<WholeFrame(current)>>
                            ELSE changed,
         full_frame |-> full_frame]

detect_blocks(current, previous, bs) ==
    LET tiles == TilesOf(current.width, current.height, bs)
        changed == SelectSeq(tiles, LAMBDA b :
                       block_differs(current, previous, b.x, b.y,
                                     b.x + b.width, b.y + b.height))
        full_frame == changed # <<>> /\ 5 * Len(changed) > 4 * Len(tiles)
    IN  [frame_number |-> 0, width |-> current.width, height |-> current.height,
         changed_blocks |-> IF full_frame THEN <<WholeFrame(current)>>
                            ELSE changed,
         full_frame |-> full_frame]

\* DeltaDetector::detect: the DeltaFrame it returns.
detect(previous_frame, current, bs) ==
    IF /\ previous_frame # NoFrame
       /\ previous_frame.width = current.width
       /\ previous_frame.height = current.height
    THEN detect_blocks(current, previous_frame, bs)
    ELSE [frame_number |-> 0, width |-> current.width,
          height |-> current.height,
          changed_blocks |-> <<WholeFrame(current)>>,
          full_frame |-> TRUE]

\* ---- inputs ----

\* The resolutions of the captured frames.
FrameDims == {<<5, 1>>, <<1, 3>>}

PixelsOf(dims) == (0..(dims[1] - 1)) \X (0..(dims[2] - 1))

\* What the capturer leaves in the row padding.
Garbage == {8, 9}

\* A captured frame of a two-colour screen: the pixels of lit differ from
\* the others in their last byte; each row ends with pad bytes of padding.
RawFrame(dims, format, pad, lit, garbage) ==
    LET bpp == bytes_per_pixel(format)
        stride == dims[1] * bpp + pad
    IN  [width |-> dims[1], height |-> dims[2], stride |-> stride,
         format |-> format,
         data |-> [i \in 1..(stride * dims[2]) |->
                     LET col == (i - 1) % stride
                         y == (i - 1) \div stride
                     IN  IF col >= dims[1] * bpp THEN garbage
                         ELSE IF <<col \div bpp, y>> \in lit
                                 /\ col % bpp = bpp - 1
                              THEN 2 ELSE 1]]

\* The frames one capture source yields: one format, one row padding.
RawFramesOf(source, sizes, paddings) ==
    UNION {{RawFrame(dims, source.format, source.pad, lit, garbage) :
               lit \in SUBSET PixelsOf(dims), garbage \in paddings} :
           dims \in sizes}

RawFrames(source) == RawFramesOf(source, FrameDims, Garbage)

\* The capture sources: a pixel format and the padding of a row.
Sources == {[format |-> "Bgra8", pad |-> 1], [format |-> "Rgb8", pad |-> 0]}

NoSource == [kind |-> "none"]

\* ---- actions ----

\* DeltaDetector::new(block_size), for the frames of one capture source.
DeltaNew(block_size, source) ==
    /\ d_block_size = 0
    /\ block_size > 0
    /\ d_block_size' = block_size
    /\ d_source' = source
    /\ UNCHANGED <<d_previous, d_last>>
    /\ DeltaOnly

\* DeltaDetector::reset.
Reset ==
    /\ d_block_size > 0
    /\ d_previous' = NoFrame
    /\ d_last' = [op |-> "reset"]
    /\ UNCHANGED <<d_block_size, d_source>>
    /\ DeltaOnly

\* DeltaDetector::detect(current).
Detect(current) ==
    /\ d_block_size > 0
    /\ d_previous' = current
    /\ d_last' = [op |-> "detect", after |-> d_last.op, current |-> current,
                  previous |-> d_previous,
                  delta |-> detect(d_previous, current, d_block_size)]
    /\ UNCHANGED <<d_block_size, d_source>>
    /\ DeltaOnly

\* No detector yet.
DeltaInit ==
    /\ d_block_size = 0
    /\ d_previous = NoFrame
    /\ d_source = NoSource
    /\ d_last = [op |-> "new"]

DeltaNext ==
    \/ \E block_size \in 1..MaxBlockSize, source \in Sources :
           DeltaNew(block_size, source)
    \/ Reset
    \/ \E current \in (IF d_source = NoSource THEN {} ELSE RawFrames(d_source)) :
           Detect(current)

\* ========================================================================
\* AdaptiveEncoder: quality control  (src/tix-core/src/rdp/encoder.rs)
\* ========================================================================

Max(a, b) == IF a >= b THEN a ELSE b

\* u8::saturating_sub.
saturating_sub(a, b) == Max(a - b, 0)

\* AdaptiveEncoder::adjust_quality: the quality and the compression level
\* after the call. target * 8 / 10 is an integer division.
adjust_quality_Unclamped(q, level, target, measured) ==
    IF measured > target
    THEN [quality |-> q - 5, compression_level |-> level + 1]
    ELSE IF measured < (target * 8) \div 10
         THEN [quality |-> q + 5, compression_level |-> level - 1]
         ELSE [quality |-> q, compression_level |-> level]

adjust_quality(q, level, target, measured) ==
    IF measured > target
    THEN [quality |-> saturating_sub(q, 5),
          compression_level |-> Min(level + 1, 9)]
    ELSE IF measured < (target * 8) \div 10
         THEN [quality |-> Min(q + 5, 100),
               compression_level |-> Max(level - 1, 1)]
         ELSE [quality |-> q, compression_level |-> level]

\* The target bandwidths encoders are built with.
Targets == {0, 10, 11}

\* AdaptiveEncoder::new(target_bandwidth).
EncNew(target) ==
    /\ e_last.op = "none"
    /\ compression_level' = 1
    /\ quality' = 90
    /\ target_bandwidth' = target
    /\ measured_bandwidth' = target
    /\ e_last' = [op |-> "new"]
    /\ EncOnly

\* AdaptiveEncoder::adjust_quality(measured).
AdjustQuality(measured) ==
    /\ e_last.op # "none"
    /\ LET after == adjust_quality(quality, compression_level,
                                   target_bandwidth, measured)
       IN  /\ quality' = after.quality
           /\ compression_level' = after.compression_level
    /\ measured_bandwidth' = measured
    /\ e_last' = [op |-> "adjust", measured |-> measured,
                  quality |-> quality, compression_level |-> compression_level]
    /\ UNCHANGED target_bandwidth
    /\ EncOnly

\* No encoder yet.
EncInit ==
    /\ compression_level = 0
    /\ quality = 0
    /\ target_bandwidth = 0
    /\ measured_bandwidth = 0
    /\ e_last = [op |-> "none"]

EncNext ==
    \/ \E target \in Targets : EncNew(target)
    \/ \E measured \in 0..MaxMeasured : AdjustQuality(measured)

\* ========================================================================
\* Capture pipeline: AdaptiveEncoder::encode, FrameDecoder, ScreenService
\* (src/tix-core/src/rdp/encoder.rs, decoder.rs, service.rs, client.rs)
\* ========================================================================

\* zstd::encode_all and zstd::decode_all: a lossless coding whose output
\* starts with a magic number and depends on the level; decoding bytes that
\* do not start with the magic number fails.
zstd_encode(raw, level) == <<253, level>> \o raw

zstd_decode(data) ==
    IF Len(data) >= 2 /\ data[1] = 253
    THEN [kind |-> "Ok", data |-> SubSeq(data, 3, Len(data))]
    ELSE [kind |-> "Err"]

\* The rows first..last-1 of a rectangle of source, packed one after the
\* other: each is &source.data[offset..offset + row_bytes].
RECURSIVE PackedRows(_, _, _, _, _)
PackedRows(source, start_x_bytes, row_bytes, first, last) ==
    IF first >= last THEN <<>>
    ELSE Slice(source.data, first * source.stride + start_x_bytes,
               first * source.stride + start_x_bytes + row_bytes)
            \o PackedRows(source, start_x_bytes, row_bytes, first + 1, last)

\* AdaptiveEncoder::encode_full_frame: every row without its padding.
encode_full_frame(source) ==
    PackedRows(source, 0, source.width * bytes_per_pixel(source.format),
               0, source.height)

\* AdaptiveEncoder::encode_delta_blocks: the number of blocks, then for each
\* block its header (x, y, width, height: one cell each for the code's
\* four bytes) and its pixels.
RECURSIVE encode_blocks(_, _)
encode_blocks(blocks, source) ==
    IF blocks = <<>> THEN <<>>
    ELSE LET block == Head(blocks)
             bpp == bytes_per_pixel(source.format)
         IN  <<block.x, block.y, block.width, block.height>>
                \o PackedRows(source, block.x * bpp, block.width * bpp,
                              block.y, block.y + block.height)
                \o encode_blocks(Tail(blocks), source)

encode_delta_blocks_FromOrigin(blocks, source) ==
    <<Len(blocks)>>
        \o encode_blocks([i \in 1..Len(blocks) |->
                             [blocks[i] EXCEPT !.x = 0, !.y = 0]], source)

encode_delta_blocks(blocks, source) ==
    <<Len(blocks)>> \o encode_blocks(blocks, source)

\* AdaptiveEncoder::encode: the EncodedFrame (the timestamp aside).
encode(level, delta, source) ==
    LET raw == IF delta.full_frame THEN encode_full_frame(source)
               ELSE encode_delta_blocks(delta.changed_blocks, source)
    IN  [frame_number |-> delta.frame_number, width |-> delta.width,
         height |-> delta.height, data |-> zstd_encode(raw, level),
         is_full_frame |-> delta.full_frame,
         block_count |-> Len(delta.changed_blocks)]

\* FrameDecoder::decode.
frame_decode(encoded) ==
    LET decompressed == zstd_decode(encoded.data)
    IN  IF decompressed.kind = "Err" THEN [kind |-> "Err"]
        ELSE [kind |-> "Ok",
              frame |-> [width |-> encoded.width, height |-> encoded.height,
                         is_full_frame |-> encoded.is_full_frame,
                         data |-> decompressed.data,
                         block_count |-> encoded.block_count]]

\* FrameDecoder::new.
NewDecoder == [frame_buffer |-> <<>>, buf_width |-> 0, buf_height |-> 0]

\* vec![0u8; n].
Zeros(n) == [i \in 1..n |-> 0]

\* The bounds check of the slice index frame_buffer[dst_start..dst_start +
\* len]: a range that ends past the buffer panics.
slice_in_bounds_Start(frame_buffer, dst_start, len) ==
    dst_start <= Len(frame_buffer)

slice_in_bounds(frame_buffer, dst_start, len) ==
    dst_start + len <= Len(frame_buffer)

\* frame_buffer[dst_start..dst_start + len].copy_from_slice(bytes), for a
\* range inside the buffer.
CopyInto(frame_buffer, dst_start, bytes) ==
    [i \in 1..Len(frame_buffer) |->
        IF dst_start < i /\ i <= dst_start + Len(bytes)
        THEN bytes[i - dst_start] ELSE frame_buffer[i]]

\* FrameDecoder::apply_full_frame.
apply_full_frame(decoder, data, bpp) ==
    LET expected == decoder.buf_width * decoder.buf_height * bpp
    IN  IF Len(data) < expected
        THEN [kind |-> "Err", decoder |-> decoder]
        ELSE [kind |-> "Ok",
              decoder |-> [decoder EXCEPT !.frame_buffer =
                              CopyInto(decoder.frame_buffer, 0,
                                       SubSeq(data, 1, expected))]]

\* The row loop of apply_delta_frame for one block, from row on; offset is
\* the position in data. Yields the buffer, the offset after the block and
\* whether the data ran out (Err) or the copy left the buffer (Panic).
RECURSIVE apply_rows(_, _, _, _, _, _, _)
apply_rows(frame_buffer, data, offset, block, row, row_stride, bpp) ==
    IF row >= block.height
    THEN [kind |-> "Ok", frame_buffer |-> frame_buffer, offset |-> offset]
    ELSE LET block_row_bytes == block.width * bpp
             src_end == offset + block_row_bytes
             dst_start == (block.y + row) * row_stride + block.x * bpp
         IN  IF src_end > Len(data)
             THEN [kind |-> "Err", frame_buffer |-> frame_buffer,
                   offset |-> offset]
             ELSE IF ~slice_in_bounds(frame_buffer, dst_start, block_row_bytes)
             THEN [kind |-> "Panic", frame_buffer |-> frame_buffer,
                   offset |-> offset]
             ELSE apply_rows(CopyInto(frame_buffer, dst_start,
                                      Slice(data, offset, src_end)),
                             data, src_end, block, row + 1, row_stride, bpp)

\* The block loop of apply_delta_frame, with remaining blocks to read.
RECURSIVE apply_blocks(_, _, _, _, _, _)
apply_blocks(frame_buffer, data, offset, remaining, row_stride, bpp) ==
    IF remaining = 0
    THEN [kind |-> "Ok", frame_buffer |-> frame_buffer]
    ELSE IF offset + 4 > Len(data)
         THEN [kind |-> "Err", frame_buffer |-> frame_buffer]
         ELSE LET block == [x |-> data[offset + 1], y |-> data[offset + 2],
                            width |-> data[offset + 3],
                            height |-> data[offset + 4]]
                  rows == apply_rows(frame_buffer, data, offset + 4, block, 0,
                                     row_stride, bpp)
              IN  IF rows.kind # "Ok"
                  THEN [kind |-> rows.kind, frame_buffer |-> rows.frame_buffer]
                  ELSE apply_blocks(rows.frame_buffer, data, rows.offset,
                                    remaining - 1, row_stride, bpp)

\* FrameDecoder::apply_delta_frame.
apply_delta_frame_FromZero(decoder, data, bpp) ==
    IF Len(data) < 1
    THEN [kind |-> "Err", decoder |-> decoder]
    ELSE LET done == apply_blocks(Zeros(Len(decoder.frame_buffer)), data, 1,
                                  data[1], decoder.buf_width * bpp, bpp)
         IN  [kind |-> done.kind,
              decoder |-> [decoder EXCEPT !.frame_buffer = done.frame_buffer]]

apply_delta_frame(decoder, data, bpp) ==
    IF Len(data) < 1
    THEN [kind |-> "Err", decoder |-> decoder]
    ELSE LET done == apply_blocks(decoder.frame_buffer, data, 1, data[1],
                                  decoder.buf_width * bpp, bpp)
         IN  [kind |-> done.kind,
              decoder |-> [decoder EXCEPT !.frame_buffer = done.frame_buffer]]

\* FrameDecoder::apply: the decoder after the call and Ok or Err, or Panic
\* when the call does not return.
apply_KeepBuffer(decoder, frame, bpp) ==
    IF frame.is_full_frame
    THEN apply_full_frame(decoder, frame.data, bpp)
    ELSE apply_delta_frame(decoder, frame.data, bpp)

apply(decoder, frame, bpp) ==
    LET fb_size == frame.width * frame.height * bpp
        sized == IF frame.width # decoder.buf_width
                    \/ frame.height # decoder.buf_height
                 THEN [frame_buffer |-> Zeros(fb_size),
                       buf_width |-> frame.width, buf_height |-> frame.height]
                 ELSE decoder
    IN  IF frame.is_full_frame
        THEN apply_full_frame(sized, frame.data, bpp)
        ELSE apply_delta_frame(sized, frame.data, bpp)

\* ---- inputs ----

\* The frames of the service's capture source, and the frames and delta
\* frames handed to the encoder directly.
ServiceFrames(source) == RawFramesOf(source, {<<2, 1>>, <<1, 1>>}, {8})

HandFrames(source) == RawFramesOf(source, {<<2, 2>>}, {8})

\* The blocks inside a w x h frame.
BlocksInside(w, h) ==
    {b \in [x : 0..(w - 1), y : 0..(h - 1), width : 1..w, height : 1..h] :
        b.x + b.width <= w /\ b.y + b.height <= h}

\* The delta frames for a source frame: the full one, and the partial ones
\* of up to two blocks inside the frame.
DeltaFrames(source) ==
    LET inside == BlocksInside(source.width, source.height)
        lists == {<<>>} \cup {<<b>> : b \in inside}
                     \cup {<<b, c>> : b \in inside, c \in inside}
    IN  {[frame_number |-> 0, width |-> source.width,
          height |-> source.height,
          changed_blocks |-> <<WholeFrame(source)>>, full_frame |-> TRUE]}
        \cup {[frame_number |-> 0, width |-> source.width,
               height |-> source.height,
               changed_blocks |-> blocks, full_frame |-> FALSE] :
                  blocks \in lists}

\* The frames the service sends in one run.
ScreenFrameNumbers == {0, 1, 2}

\* Decompressed delta payloads of any content: the sizes of the frame, the
\* blocks of the payload, and the block that may follow the first one.
PayloadDims == {<<2, 1>>, <<1, 2>>}

PayloadBlocks ==
    [x : 0..MaxCoord, y : 0..MaxCoord, width : 0..MaxCoord,
     height : 0..MaxCoord]

SecondBlocks ==
    {[x |-> 0, y |-> 0, width |-> 1, height |-> 1],
     [x |-> 2, y |-> 0, width |-> 1, height |-> 1]}

BlockLists ==
    {<<>>} \cup {<<b>> : b \in PayloadBlocks}
        \cup {<<b, c>> : b \in PayloadBlocks, c \in SecondBlocks}

\* The cells of the blocks in a payload: each header, then w * h pixels.
RECURSIVE PayloadCells(_, _)
PayloadCells(blocks, bpp) ==
    IF blocks = <<>> THEN <<>>
    ELSE LET b == Head(blocks)
         IN  <<b.x, b.y, b.width, b.height>>
                \o [i \in 1..(b.width * bpp * b.height) |-> 7]
                \o PayloadCells(Tail(blocks), bpp)

\* A payload announcing declared blocks, cut after its first cut cells.
FullPayload(declared, blocks, bpp) ==
    <<declared>> \o PayloadCells(blocks, bpp)

DeltaPayload(declared, blocks, bpp, cut) ==
    SubSeq(FullPayload(declared, blocks, bpp), 1, cut)

\* The compression levels adjust_quality moves between.
Levels == {1, 9}

NoDelta == [kind |-> "none"]

\* ---- actions ----

\* ScreenService::with_config, and ScreenClient::new with the pixel format
\* of the source.
ScreenNew(block_size, source) ==
    /\ s_pc = "new"
    /\ s_config' = [mode |-> "service", block_size |-> block_size,
                    source |-> source]
    /\ s_pc' = "capture"
    /\ UNCHANGED <<s_previous, s_frame_number, s_frame_count, s_delta, wire,
                   s_lost, c_decoder, c_last>>
    /\ ScreenOnly

\* A delta frame and a source frame are handed to a new encoder, as the
\* round trip tests do.
HandDelta(delta, raw, source) ==
    /\ s_pc = "new"
    /\ s_config' = [mode |-> "direct", block_size |-> 0, source |-> source]
    /\ s_delta' = [delta |-> delta, raw |-> raw, base |-> NoFrame]
    /\ s_pc' = "encode"
    /\ UNCHANGED <<s_previous, s_frame_number, s_frame_count, wire, s_lost,
                   c_decoder, c_last>>
    /\ ScreenOnly

\* ScreenService::run, steps 1 and 2: capture, detect, and skip the frame
\* when nothing changed.
Capture(raw) ==
    /\ s_pc = "capture"
    /\ s_config.mode = "service"
    /\ s_frame_number \in ScreenFrameNumbers
    /\ LET delta == [detect(s_previous, raw, s_config.block_size)
                        EXCEPT !.frame_number = s_frame_number]
       IN  IF ~delta.full_frame /\ delta.changed_blocks = <<>>
           THEN UNCHANGED <<s_pc, s_delta>>
           ELSE /\ s_pc' = "encode"
                /\ s_delta' = [delta |-> delta, raw |-> raw,
                               base |-> s_previous]
    /\ s_previous' = raw
    /\ UNCHANGED <<s_config, s_frame_number, s_frame_count, wire, s_lost,
                   c_decoder, c_last>>
    /\ ScreenOnly

\* ScreenService::run, steps 3 to 5: AdaptiveEncoder::encode at the current
\* level and send_frame.
Encode(level) ==
    /\ s_pc = "encode"
    /\ wire' = [frame |-> encode(level, s_delta.delta, s_delta.raw),
                delta |-> s_delta.delta, raw |-> s_delta.raw,
                base |-> s_delta.base]
    /\ s_frame_count' = s_frame_count + 1
    /\ s_frame_number' = s_frame_number + 1
    /\ s_delta' = NoDelta
    /\ s_pc' = "sent"
    /\ UNCHANGED <<s_config, s_previous, s_lost, c_decoder, c_last>>
    /\ ScreenOnly

\* The frame in transit is lost.
LoseFrame ==
    /\ s_pc = "sent"
    /\ wire' = NoDelta
    /\ s_lost' = TRUE
    /\ s_pc' = "capture"
    /\ UNCHANGED <<s_config, s_previous, s_frame_number, s_frame_count,
                   s_delta, c_decoder, c_last>>
    /\ ScreenOnly

\* Every frame sent so far was delivered and applied, none lost.
InOrder(last) == last.op = "apply" => last.in_order

\* ScreenClient::run: receive_frame returns the frame in transit, which is
\* decoded and applied.
ReceiveApply ==
    /\ s_pc = "sent"
    /\ LET decoded == frame_decode(wire.frame)
           bpp == bytes_per_pixel(s_config.source.format)
       IN  IF decoded.kind = "Err"
           THEN /\ c_last' = [op |-> "decode failed"]
                /\ UNCHANGED c_decoder
           ELSE LET applied == apply(c_decoder, decoded.frame, bpp)
                IN  /\ c_decoder' = applied.decoder
                    /\ c_last' = [op |-> "apply", kind |-> applied.kind,
                                  frame |-> decoded.frame, bpp |-> bpp,
                                  before |-> c_decoder,
                                  once |-> applied.decoder, times |-> 1,
                                  delta |-> wire.delta,
                                  raw |-> wire.raw, base |-> wire.base,
                                  lost |-> s_lost,
                                  in_order |-> ~s_lost /\ InOrder(c_last)]
    /\ wire' = NoDelta
    /\ s_lost' = FALSE
    /\ s_pc' = "capture"
    /\ UNCHANGED <<s_config, s_previous, s_frame_number, s_frame_count,
                   s_delta>>
    /\ ScreenOnly

\* The frame applied last arrives and is applied a second time.
ApplyAgain ==
    /\ s_pc = "capture"
    /\ c_last.op = "apply" /\ c_last.times = 1
    /\ c_decoder' = apply(c_decoder, c_last.frame, c_last.bpp).decoder
    /\ c_last' = [c_last EXCEPT !.times = 2]
    /\ UNCHANGED <<s_pc, s_config, s_previous, s_frame_number, s_frame_count,
                   s_delta, wire, s_lost>>
    /\ ScreenOnly

\* FrameDecoder::apply on a new decoder, for a delta frame whose
\* decompressed payload is whatever the sender put there.
ApplyPayload(source, dims, declared, blocks, cut) ==
    /\ s_pc = "new"
    /\ LET bpp == bytes_per_pixel(source.format)
           frame == [width |-> dims[1], height |-> dims[2],
                     is_full_frame |-> FALSE,
                     data |-> DeltaPayload(declared, blocks, bpp, cut),
                     block_count |-> 0]
           applied == apply(c_decoder, frame, bpp)
       IN  /\ c_decoder' = applied.decoder
           /\ c_last' = [op |-> "apply_payload", kind |-> applied.kind,
                         frame |-> frame, bpp |-> bpp, blocks |-> blocks,
                         declared |-> declared, cut |-> cut]
    /\ s_config' = [mode |-> "payload", block_size |-> 0, source |-> source]
    /\ s_pc' = "applied"
    /\ UNCHANGED <<s_previous, s_frame_number, s_frame_count, s_delta, wire,
                   s_lost>>
    /\ ScreenOnly

\* Nothing built yet; the decoder is FrameDecoder::new().
ScreenInit ==
    /\ s_pc = "new"
    /\ s_config = NoSource
    /\ s_previous = NoFrame
    /\ s_frame_number = 0
    /\ s_frame_count = 0
    /\ s_delta = NoDelta
    /\ wire = NoDelta
    /\ s_lost = FALSE
    /\ c_decoder = NewDecoder
    /\ c_last = [op |-> "new"]

ScreenNext ==
    \/ \E block_size \in 1..MaxBlockSize, source \in Sources :
           ScreenNew(block_size, source)
    \/ \E source \in Sources :
           \E raw \in HandFrames(source) :
               \E delta \in DeltaFrames(raw) : HandDelta(delta, raw, source)
    \/ \E raw \in (IF s_config = NoSource THEN {}
                   ELSE ServiceFrames(s_config.source)) : Capture(raw)
    \/ \E level \in Levels : Encode(level)
    \/ LoseFrame
    \/ ReceiveApply
    \/ ApplyAgain
    \/ \E source \in (IF s_pc = "new" THEN Sources ELSE {}),
          dims \in PayloadDims, blocks \in BlockLists :
           \E declared \in {Len(blocks), Len(blocks) + 1} :
               \E cut \in 0..Len(FullPayload(declared, blocks,
                                             bytes_per_pixel(source.format))) :
                   ApplyPayload(source, dims, declared, blocks, cut)

\* ========================================================================
\* BandwidthEstimator (rdp/bandwidth.rs)
\* ========================================================================

\* Instant::duration_since: saturates to zero when earlier is later.
duration_since(later, earlier) == IF later >= earlier THEN later - earlier ELSE 0

\* evict: the test on the front sample, with the window included.
Expired_AtWindow(at, ts, window) == duration_since(at, ts) >= window

\* evict: the test on the front sample (bandwidth.rs 98).
Expired(at, ts, window) == duration_since(at, ts) > window

\* evict: pops front samples while they are older than the window and
\* takes their bytes off the total; stops at the first sample that is not.
RECURSIVE evict(_, _)
evict(est, at) ==
    IF est.samples = <<>> THEN est
    ELSE IF Expired(at, Head(est.samples).when, est.window)
         THEN evict([est EXCEPT
                         !.samples = Tail(est.samples),
                         !.total_bytes =
                             saturating_sub(est.total_bytes,
                                            Head(est.samples).bytes)],
                    at)
         ELSE est

\* record_at: push_back, add to the total, evict.
record_at(est, when, bytes) ==
    evict([est EXCEPT !.samples = Append(est.samples,
                                          [when |-> when, bytes |-> bytes]),
                      !.total_bytes = est.total_bytes + bytes],
          when)

\* with_window
with_window(window) == [samples |-> <<>>, window |-> window, total_bytes |-> 0]

\* The estimator held in the variables.
Estimator ==
    [samples |-> bw_samples, window |-> bw_window,
     total_bytes |-> bw_total_bytes]

\* The windows, instants and byte counts of the runs.
Windows == {1, 2}
Instants == 0..MaxInstant
ByteCounts == {0, 1, 3}

BwWithWindow(window) ==
    /\ bw_last.op = "none"
    /\ LET est == with_window(window)
       IN  /\ bw_samples' = est.samples
           /\ bw_window' = est.window
           /\ bw_total_bytes' = est.total_bytes
    /\ bw_last' = [op |-> "with_window", when |-> 0, bytes |-> 0]
    /\ UNCHANGED bw_history
    /\ BwOnly

RecordAt(when, bytes) ==
    /\ bw_last.op # "none"
    /\ Len(bw_history) < MaxRecords
    /\ LET est == record_at(Estimator, when, bytes)
       IN  /\ bw_samples' = est.samples
           /\ bw_total_bytes' = est.total_bytes
    /\ bw_history' = Append(bw_history, [when |-> when, bytes |-> bytes])
    /\ bw_last' = [op |-> "record_at", when |-> when, bytes |-> bytes]
    /\ UNCHANGED bw_window
    /\ BwOnly

BwInit ==
    /\ bw_samples = <<>>
    /\ bw_window = 0
    /\ bw_total_bytes = 0
    /\ bw_history = <<>>
    /\ bw_last = [op |-> "none", when |-> 0, bytes |-> 0]

BwNext ==
    \/ \E window \in Windows : BwWithWindow(window)
    \/ \E when \in Instants, bytes \in ByteCounts : RecordAt(when, bytes)

\* ========================================================================
\* ScreenService::run / stop (rdp/service.rs) and the session of
\* RdpSlaveService::run (tix-rdp-slave/src/service.rs)
\* ========================================================================

\* stop that leaves the flag as it is.
stop_NoStore(running) == running

\* stop, or a store of false through stop_handle: the flag afterwards.
stop(running) == FALSE

\* A counter of the model that stops counting at its bound.
CountUpTo(n, bound) == IF n < bound THEN n + 1 ELSE n

\* What one iteration of run meets: a captured frame that is sent, an
\* unchanged frame, a capture timeout, or an error of capture_frame,
\* encode or send_frame.
Outcomes == {"frame", "unchanged", "timeout", "error"}

\* When a stop signalled now is the first one, where it falls.
FirstStop ==
    IF sv_stop # "no" THEN sv_stop
    ELSE IF sv_pc = "spawned" THEN "before_start" ELSE "after_start"

\* RdpSlaveService::run: a master is accepted, ScreenService::with_config
\* builds the service with running = false, and run is spawned.
SessionStart ==
    /\ ss_pc = "accept"
    /\ ss_sessions < MaxSessions
    /\ sv_running' = FALSE
    /\ sv_pc' = "spawned"
    /\ sv_frame_number' = 0
    /\ sv_stop' = "no"
    /\ sv_entered' = 0
    /\ ss_pc' = "forward"
    /\ UNCHANGED ss_sessions
    /\ SvcOnly

\* forward_input returns: the master disconnected or the slave is stopped.
ForwardReturns ==
    /\ ss_pc = "forward"
    /\ ss_pc' = "store"
    /\ UNCHANGED <<sv_running, sv_pc, sv_frame_number, sv_stop, sv_entered,
                   ss_sessions>>
    /\ SvcOnly

\* svc_running.store(false)
SessionStore ==
    /\ ss_pc = "store"
    /\ sv_running' = stop(sv_running)
    /\ sv_stop' = FirstStop
    /\ ss_pc' = "await"
    /\ UNCHANGED <<sv_pc, sv_frame_number, sv_entered, ss_sessions>>
    /\ SvcOnly

\* capture_handle.await completes once the capture task has ended.
SessionJoin ==
    /\ ss_pc = "await"
    /\ sv_pc \in {"done", "failed"}
    /\ ss_pc' = "accept"
    /\ ss_sessions' = ss_sessions + 1
    /\ UNCHANGED <<sv_running, sv_pc, sv_frame_number, sv_stop, sv_entered>>
    /\ SvcOnly

\* Another holder of stop_handle stores false, at any point after the
\* handle was taken.
StopHandle ==
    /\ sv_pc # "none"
    /\ sv_stop = "no"
    /\ sv_running' = stop(sv_running)
    /\ sv_stop' = FirstStop
    /\ UNCHANGED <<sv_pc, sv_frame_number, sv_entered, ss_pc, ss_sessions>>
    /\ SvcOnly

\* run: its first statement, running.store(true).
RunStart ==
    /\ sv_pc = "spawned"
    /\ sv_running' = TRUE
    /\ sv_pc' = "loop"
    /\ UNCHANGED <<sv_frame_number, sv_stop, sv_entered, ss_pc, ss_sessions>>
    /\ SvcOnly

\* run: while self.running.load(..)
RunTest ==
    /\ sv_pc = "loop"
    /\ IF sv_running
       THEN /\ sv_pc' = "capture"
            /\ sv_entered' = IF sv_stop = "no" THEN sv_entered
                             ELSE CountUpTo(sv_entered, 2)
       ELSE /\ sv_pc' = "done"
            /\ UNCHANGED sv_entered
    /\ UNCHANGED <<sv_running, sv_frame_number, sv_stop, ss_pc, ss_sessions>>
    /\ SvcOnly

\* run: the body of one iteration up to its await.
RunBody(outcome) ==
    /\ sv_pc = "capture"
    /\ sv_pc' = IF outcome = "error" THEN "failed" ELSE "pace"
    /\ sv_frame_number' = IF outcome = "frame"
                          THEN CountUpTo(sv_frame_number, MaxSvcFrames)
                          ELSE sv_frame_number
    /\ UNCHANGED <<sv_running, sv_stop, sv_entered, ss_pc, ss_sessions>>
    /\ SvcOnly

\* run: yield_now or pace completes and the loop continues.
RunPace ==
    /\ sv_pc = "pace"
    /\ sv_pc' = "loop"
    /\ UNCHANGED <<sv_running, sv_frame_number, sv_stop, sv_entered, ss_pc,
                   ss_sessions>>
    /\ SvcOnly

SvcInit ==
    /\ sv_running = FALSE
    /\ sv_pc = "none"
    /\ sv_frame_number = 0
    /\ sv_stop = "no"
    /\ sv_entered = 0
    /\ ss_pc = "accept"
    /\ ss_sessions = 0

\* The steps of the spawned capture task.
RunStep ==
    \/ RunStart
    \/ RunTest
    \/ \E outcome \in Outcomes : RunBody(outcome)
    \/ RunPace

SvcNext ==
    \/ SessionStart
    \/ ForwardReturns
    \/ SessionStore
    \/ SessionJoin
    \/ StopHandle
    \/ RunStart
    \/ RunTest
    \/ \E outcome \in Outcomes : RunBody(outcome)
    \/ RunPace

\* ========================================================================
\* ScreenClient::run / stop (rdp/client.rs)
\* ========================================================================

\* receive_frame with a receive timeout: what it would return on an empty
\* socket.
recv_from_empty_Timeout == "timeout"

\* receive_frame on an empty socket: socket.recv_from(..).await has no
\* timeout, the call stays pending (transport.rs 232-236).
recv_from_empty == "pending"

\* The datagrams the network delivers: the last one of a frame, one that
\* is not the last of a frame, and a receive error of the socket.
Datagrams == {"last", "part", "error"}

\* When a stop signalled now is the first one, where it falls.
ClientFirstStop ==
    IF cl_stop # "no" THEN cl_stop
    ELSE IF cl_pc = "spawned" THEN "before_start" ELSE "after_start"

\* ScreenClient::new, and run spawned on the runtime.
ClientSpawn ==
    /\ cl_pc = "none"
    /\ cl_pc' = "spawned"
    /\ cl_running' = FALSE
    /\ UNCHANGED <<cl_socket, cl_sent, cl_stop, cl_frames>>
    /\ CliOnly

\* stop, or a store of false through stop_handle.
ClientStop ==
    /\ cl_pc # "none"
    /\ cl_stop = "no"
    /\ cl_running' = stop(cl_running)
    /\ cl_stop' = ClientFirstStop
    /\ UNCHANGED <<cl_pc, cl_socket, cl_sent, cl_frames>>
    /\ CliOnly

\* The sender's datagram reaches the socket.
Arrive(datagram) ==
    /\ cl_pc # "none"
    /\ cl_sent < MaxDatagrams
    /\ cl_socket' = Append(cl_socket, datagram)
    /\ cl_sent' = cl_sent + 1
    /\ UNCHANGED <<cl_running, cl_pc, cl_stop, cl_frames>>
    /\ CliOnly

\* run: its first statement, running.store(true).
ClientStart ==
    /\ cl_pc = "spawned"
    /\ cl_running' = TRUE
    /\ cl_pc' = "loop"
    /\ UNCHANGED <<cl_socket, cl_sent, cl_stop, cl_frames>>
    /\ CliOnly

\* run: while self.running.load(..)
ClientTest ==
    /\ cl_pc = "loop"
    /\ cl_pc' = IF cl_running THEN "receive" ELSE "done"
    /\ UNCHANGED <<cl_running, cl_socket, cl_sent, cl_stop, cl_frames>>
    /\ CliOnly

\* run: transport.receive_frame().await reads one datagram; on an empty
\* socket it stays pending, or, were there a timeout, the loop continues.
ClientReceive ==
    /\ cl_pc = "receive"
    /\ IF cl_socket = <<>>
       THEN /\ recv_from_empty = "timeout"
            /\ cl_pc' = "loop"
            /\ UNCHANGED <<cl_socket, cl_frames>>
       ELSE /\ cl_socket' = Tail(cl_socket)
            /\ cl_pc' = CASE Head(cl_socket) = "last" -> "apply"
                          [] Head(cl_socket) = "part" -> "receive"
                          [] OTHER -> "failed"
            /\ cl_frames' = IF Head(cl_socket) = "last" /\ cl_stop # "no"
                            THEN CountUpTo(cl_frames, 2)
                            ELSE cl_frames
    /\ UNCHANGED <<cl_running, cl_sent, cl_stop>>
    /\ CliOnly

\* run: decode, apply, publish; a decode error ends run.
ClientApply(ok) ==
    /\ cl_pc = "apply"
    /\ cl_pc' = IF ok THEN "loop" ELSE "failed"
    /\ UNCHANGED <<cl_running, cl_socket, cl_sent, cl_stop, cl_frames>>
    /\ CliOnly

CliInit ==
    /\ cl_running = FALSE
    /\ cl_pc = "none"
    /\ cl_socket = <<>>
    /\ cl_sent = 0
    /\ cl_stop = "no"
    /\ cl_frames = 0

\* The steps of the client task.
ClientStep ==
    \/ ClientStart
    \/ ClientTest
    \/ ClientReceive
    \/ \E ok \in BOOLEAN : ClientApply(ok)

CliNext ==
    \/ ClientSpawn
    \/ ClientStop
    \/ \E datagram \in Datagrams : Arrive(datagram)
    \/ ClientStart
    \/ ClientTest
    \/ ClientReceive
    \/ \E ok \in BOOLEAN : ClientApply(ok)

\* ========================================================================
\* Response streams  (src/tix-core/src/protocol/shell.rs, file.rs)
\* ========================================================================

\* ProtocolFlags::contains, for a single flag.
contains(f, flag) == HasBit(f, flag)

\* Packet::new_response_with_flags
new_response_with_flags(request_id, cmd, payload, fl) ==
    build(Response, request_id, cmd, payload, fl)

\* ShellOutputChunk::into_packet, on the chunk's serialised bytes.
ShellOutputChunk_into_packet(payload, request_id) ==
    new_response_with_flags(request_id, ShellExecute, payload, STREAMING)

\* ShellExitStatus::into_packet, on the status' serialised bytes.
ShellExitStatus_into_packet(payload, request_id) ==
    new_response_with_flags(request_id, ShellExecute, payload, FINAL_FRAGMENT)

\* A classification that looks at STREAMING first.
classify_shell_response_StreamingFirst(packet) ==
    LET f == flags(packet.header)
    IN  IF contains(f, STREAMING) THEN "OutputChunk"
        ELSE IF contains(f, FINAL_FRAGMENT) THEN "Exit"
        ELSE "LegacySingle"

\* classify_shell_response
classify_shell_response(packet) ==
    LET f == flags(packet.header)
    IN  IF contains(f, FINAL_FRAGMENT) THEN "Exit"
        ELSE IF contains(f, STREAMING) THEN "OutputChunk"
        ELSE "LegacySingle"

\* classify_file_response
classify_file_response(packet) ==
    LET f == flags(packet.header)
    IN  IF contains(f, FINAL_FRAGMENT) THEN "HashVerification"
        ELSE IF contains(f, STREAMING) THEN "StreamingChunk"
        ELSE "SingleResponse"

\* The serialised chunks and exit statuses of the runs; the longest one
\* does not fit a packet.
ShellPayloads ==
    {<<1>>, <<1, 2>>, [i \in 1..(MAX_PAYLOAD_SIZE + 1) |-> 1]}

\* The flag cells a peer can put in a header: every mask of the model.
FlagMasks == 0..(2 * ResponseBit - 1)

NoPacketSeen == [set |-> FALSE]

\* A shell session is opened for a request id.
ShellStart(request_id) ==
    /\ sh_rid = 0
    /\ sh_rid' = request_id
    /\ UNCHANGED <<sh_stream, sh_done, sh_any>>
    /\ ShellOnly

\* The sender appends what into_packet built, if it built a packet.
ShellSend(result, last) ==
    /\ sh_rid # 0
    /\ ~sh_done
    /\ IF result.kind = "Ok"
       THEN /\ sh_stream' = Append(sh_stream, result.pkt)
            /\ sh_done' = last
       ELSE UNCHANGED <<sh_stream, sh_done>>
    /\ UNCHANGED <<sh_rid, sh_any>>
    /\ ShellOnly

\* An output chunk is sent: ShellOutputChunk::into_packet.
ShellChunk(payload) ==
    /\ Len(sh_stream) < MaxChunks
    /\ ShellSend(ShellOutputChunk_into_packet(payload, sh_rid), FALSE)

\* The exit status is sent, once: ShellExitStatus::into_packet.
ShellExit(payload) ==
    /\ Len(sh_stream) <= MaxChunks
    /\ ShellSend(ShellExitStatus_into_packet(payload, sh_rid), TRUE)

\* A receiver classifies a response packet whose header carries any flag
\* cell.
Classify(mask) ==
    /\ sh_rid # 0
    /\ LET built == new_response_with_flags(sh_rid, ShellExecute, <<>>, NONE).pkt
           packet == [built EXCEPT !.header.flags = mask]
       IN  sh_any' = [set |-> TRUE,
                      mask |-> mask,
                      shell |-> classify_shell_response(packet),
                      file |-> classify_file_response(packet)]
    /\ UNCHANGED <<sh_rid, sh_stream, sh_done>>
    /\ ShellOnly

ShellInit ==
    /\ sh_rid = 0
    /\ sh_stream = <<>>
    /\ sh_done = FALSE
    /\ sh_any = NoPacketSeen

ShellNext ==
    \/ \E request_id \in ReqIds : ShellStart(request_id)
    \/ \E payload \in ShellPayloads : ShellChunk(payload)
    \/ \E payload \in ShellPayloads : ShellExit(payload)
    \/ \E mask \in FlagMasks : Classify(mask)

\* ========================================================================
\* A peer's packet stream through TixCodec  (src/tix-core/src/codec/mod.rs,
\* the reader task of network/connection.rs)
\* ========================================================================

\* The well-formed packets a peer sends: an empty one, a short one, and
\* one whose frame has the maximum size.
StreamPackets ==
    {build(Command, 1, Ping, <<>>, NONE).pkt,
     build(Response, 2, ShellExecute, <<1>>, STREAMING).pkt,
     build(Command, 1, Ping, Fill(MAX_PAYLOAD_SIZE), NONE).pkt}

NoError == [kind |-> "None"]

\* The peer encodes a packet (TixCodec::encode) and writes it to the
\* stream.
PeerSend(packet) ==
    /\ st_err = NoError
    /\ Len(st_sent) < MaxStreamPackets
    /\ st_sent' = Append(st_sent, packet)
    /\ st_wire' = st_wire \o to_bytes(packet).bytes
    /\ UNCHANGED <<st_buf, st_out, st_err, st_seen>>
    /\ StreamOnly

\* A read of the socket appends the next n bytes to the decode buffer.
ReadChunk(n) ==
    /\ st_err = NoError
    /\ n \in 1..Len(st_wire)
    /\ st_buf' = st_buf \o SubSeq(st_wire, 1, n)
    /\ st_wire' = SubSeq(st_wire, n + 1, Len(st_wire))
    /\ UNCHANGED <<st_sent, st_out, st_err, st_seen>>
    /\ StreamOnly

\* The reader task: net_reader.next() calls TixCodec::decode on the
\* buffer; a packet is handed on, an error ends the task.
StreamDecode ==
    /\ st_err = NoError
    /\ st_buf # <<>>
    /\ LET d == decode(st_buf)
       IN  /\ st_buf' = d.buf
           /\ st_out' = IF d.res.kind = "Ok" THEN Append(st_out, d.res.pkt)
                        ELSE st_out
           /\ st_err' = IF d.res.kind = "Err" THEN d.res ELSE st_err
    /\ st_seen' = Max(st_seen, Len(st_buf))
    /\ UNCHANGED <<st_sent, st_wire>>
    /\ StreamOnly

StreamInit ==
    /\ st_sent = <<>>
    /\ st_wire = <<>>
    /\ st_buf = <<>>
    /\ st_out = <<>>
    /\ st_err = NoError
    /\ st_seen = 0

StreamNext ==
    \/ \E packet \in StreamPackets : PeerSend(packet)
    \/ \E n \in 1..(MaxStreamPackets * MAX_FRAME_SIZE) : ReadChunk(n)
    \/ StreamDecode

\* ========================================================================
\* Specifications
\* ========================================================================

InitPhase == PhaseInit /\ TaskInit /\ ConnInit /\ PacketInit
    /\ MasterInit /\ SlaveInit
    /\ CapsInit
    /\ ReqsInit
    /\ TransInit
    /\ DeltaInit
    /\ EncInit
    /\ ScreenInit
    /\ BwInit
    /\ SvcInit
    /\ CliInit
    /\ ShellInit
    /\ StreamInit

InitTask == PhaseIdle /\ TaskInit /\ ConnInit /\ PacketInit
    /\ MasterInit /\ SlaveInit
    /\ CapsInit
    /\ ReqsInit
    /\ TransInit
    /\ DeltaInit
    /\ EncInit
    /\ ScreenInit
    /\ BwInit
    /\ SvcInit
    /\ CliInit
    /\ ShellInit
    /\ StreamInit

InitConn == PhaseIdle /\ TaskInit /\ ConnInit /\ PacketInit
    /\ MasterInit /\ SlaveInit
    /\ CapsInit
    /\ ReqsInit
    /\ TransInit
    /\ DeltaInit
    /\ EncInit
    /\ ScreenInit
    /\ BwInit
    /\ SvcInit
    /\ CliInit
    /\ ShellInit
    /\ StreamInit

InitPacket == PhaseIdle /\ TaskInit /\ ConnInit /\ PacketInit
    /\ MasterInit /\ SlaveInit
    /\ CapsInit
    /\ ReqsInit
    /\ TransInit
    /\ DeltaInit
    /\ EncInit
    /\ ScreenInit
    /\ BwInit
    /\ SvcInit
    /\ CliInit
    /\ ShellInit
    /\ StreamInit

SpecPhase == InitPhase /\ [][PhaseNext]_vars

SpecTask == InitTask /\ [][TaskNext]_vars

SpecPool == InitTask /\ [][PoolNext]_vars

\* The runtime polls a task whose token or timer woke it, timers elapse,
\* a sender waiting on the channel gets its slot in turn, and the pool's
\* owner keeps receiving and processing events. Nothing forces a body to
\* complete.
TaskFairness ==
    /\ \A t \in TaskIds : WF_vars(DeadlineFire(t))
    /\ \A t \in TaskIds : WF_vars(Poll(t, FALSE))
    /\ \A t \in TaskIds : SF_vars(Emit(t))
    /\ WF_vars(Recv)
    /\ WF_vars(ProcessEvent)

FairSpecTask == InitTask /\ [][FairTaskNext]_vars /\ TaskFairness

SpecConn == InitConn /\ [][ConnNext]_vars

SpecPacket == InitPacket /\ [][PacketNext]_vars

InitMaster ==
    PhaseIdle /\ TaskInit /\ ConnInit /\ PacketInit
    /\ MasterInit /\ SlaveInit
    /\ CapsInit
    /\ ReqsInit
    /\ TransInit
    /\ DeltaInit
    /\ EncInit
    /\ ScreenInit
    /\ BwInit
    /\ SvcInit
    /\ CliInit
    /\ ShellInit
    /\ StreamInit

SpecMaster == InitMaster /\ [][MasterNext]_vars

InitSlave ==
    PhaseIdle /\ TaskInit /\ ConnInit /\ PacketInit
    /\ MasterInit /\ SlaveInit
    /\ CapsInit
    /\ ReqsInit
    /\ TransInit
    /\ DeltaInit
    /\ EncInit
    /\ ScreenInit
    /\ BwInit
    /\ SvcInit
    /\ CliInit
    /\ ShellInit
    /\ StreamInit

SpecSlave == InitSlave /\ [][SlaveNext]_vars

InitCaps ==
    PhaseIdle /\ TaskInit /\ ConnInit /\ PacketInit
    /\ MasterInit /\ SlaveInit
    /\ CapsInit
    /\ ReqsInit
    /\ TransInit
    /\ DeltaInit
    /\ EncInit
    /\ ScreenInit
    /\ BwInit
    /\ SvcInit
    /\ CliInit
    /\ ShellInit
    /\ StreamInit

SpecCaps == InitCaps /\ [][CapsNext]_vars

InitReqs ==
    PhaseIdle /\ TaskInit /\ ConnInit /\ PacketInit
    /\ MasterInit /\ SlaveInit
    /\ CapsInit
    /\ ReqsInit
    /\ TransInit
    /\ DeltaInit
    /\ EncInit
    /\ ScreenInit
    /\ BwInit
    /\ SvcInit
    /\ CliInit
    /\ ShellInit
    /\ StreamInit

SpecReqs == InitReqs /\ [][ReqsNext]_vars

InitTrans ==
    PhaseIdle /\ TaskInit /\ ConnInit /\ PacketInit
    /\ MasterInit /\ SlaveInit
    /\ CapsInit
    /\ ReqsInit
    /\ TransInit
    /\ DeltaInit
    /\ EncInit
    /\ ScreenInit
    /\ BwInit
    /\ SvcInit
    /\ CliInit
    /\ ShellInit
    /\ StreamInit

InitDelta ==
    PhaseIdle /\ TaskInit /\ ConnInit /\ PacketInit
    /\ MasterInit /\ SlaveInit
    /\ CapsInit
    /\ ReqsInit
    /\ TransInit
    /\ DeltaInit
    /\ EncInit
    /\ ScreenInit
    /\ BwInit
    /\ SvcInit
    /\ CliInit
    /\ ShellInit
    /\ StreamInit

InitEnc ==
    PhaseIdle /\ TaskInit /\ ConnInit /\ PacketInit
    /\ MasterInit /\ SlaveInit
    /\ CapsInit
    /\ ReqsInit
    /\ TransInit
    /\ DeltaInit
    /\ EncInit
    /\ ScreenInit
    /\ BwInit
    /\ SvcInit
    /\ CliInit
    /\ ShellInit
    /\ StreamInit

InitStream ==
    PhaseIdle /\ TaskInit /\ ConnInit /\ PacketInit
    /\ MasterInit /\ SlaveInit
    /\ CapsInit
    /\ ReqsInit
    /\ TransInit
    /\ DeltaInit
    /\ EncInit
    /\ ScreenInit
    /\ BwInit
    /\ SvcInit
    /\ CliInit
    /\ ShellInit
    /\ StreamInit

InitShell ==
    PhaseIdle /\ TaskInit /\ ConnInit /\ PacketInit
    /\ MasterInit /\ SlaveInit
    /\ CapsInit
    /\ ReqsInit
    /\ TransInit
    /\ DeltaInit
    /\ EncInit
    /\ ScreenInit
    /\ BwInit
    /\ SvcInit
    /\ CliInit
    /\ ShellInit
    /\ StreamInit

InitCli ==
    PhaseIdle /\ TaskInit /\ ConnInit /\ PacketInit
    /\ MasterInit /\ SlaveInit
    /\ CapsInit
    /\ ReqsInit
    /\ TransInit
    /\ DeltaInit
    /\ EncInit
    /\ ScreenInit
    /\ BwInit
    /\ SvcInit
    /\ CliInit
    /\ ShellInit
    /\ StreamInit

InitSvc ==
    PhaseIdle /\ TaskInit /\ ConnInit /\ PacketInit
    /\ MasterInit /\ SlaveInit
    /\ CapsInit
    /\ ReqsInit
    /\ TransInit
    /\ DeltaInit
    /\ EncInit
    /\ ScreenInit
    /\ BwInit
    /\ SvcInit
    /\ CliInit
    /\ ShellInit
    /\ StreamInit

InitBw ==
    PhaseIdle /\ TaskInit /\ ConnInit /\ PacketInit
    /\ MasterInit /\ SlaveInit
    /\ CapsInit
    /\ ReqsInit
    /\ TransInit
    /\ DeltaInit
    /\ EncInit
    /\ ScreenInit
    /\ BwInit
    /\ SvcInit
    /\ CliInit
    /\ ShellInit
    /\ StreamInit

InitScreen ==
    PhaseIdle /\ TaskInit /\ ConnInit /\ PacketInit
    /\ MasterInit /\ SlaveInit
    /\ CapsInit
    /\ ReqsInit
    /\ TransInit
    /\ DeltaInit
    /\ EncInit
    /\ ScreenInit
    /\ BwInit
    /\ SvcInit
    /\ CliInit
    /\ ShellInit
    /\ StreamInit

SpecTrans == InitTrans /\ [][TransNext]_vars

SpecDelta == InitDelta /\ [][DeltaNext]_vars

SpecEnc == InitEnc /\ [][EncNext]_vars

SpecScreen == InitScreen /\ [][ScreenNext]_vars

SpecBw == InitBw /\ [][BwNext]_vars

SpecSvc == InitSvc /\ [][SvcNext]_vars

SpecCli == InitCli /\ [][CliNext]_vars

SpecShell == InitShell /\ [][ShellNext]_vars

SpecStream == InitStream /\ [][StreamNext]_vars

\* The runtime runs the client task; nothing obliges the sender to send.
CliFairness == WF_vars(ClientStep)

FairSpecCli == InitCli /\ [][CliNext]_vars /\ CliFairness

\* The runtime runs the spawned capture task: each statement of run is
\* reached, capture_frame returns within its timeout and pace sleeps for
\* at most one frame interval; the session is resumed once the task it
\* awaits has ended.
SvcFairness ==
    /\ WF_vars(RunStep)
    /\ WF_vars(SessionJoin)

FairSpecSvc == InitSvc /\ [][SvcNext]_vars /\ SvcFairness

\* The runtime runs a task that can make a step: the writer takes the next
\* packet and the socket accepts it, the interval timer fires, a sender
\* waiting for a permit gets it in turn, and the application keeps calling
\* recv(). Nothing forces the peer to send or to close, the application to
\* send or to drop its handles, or a write to fail.
ConnFairness ==
    /\ WF_vars(WriterRecv)
    /\ WF_vars(WriterWrite)
    /\ WF_vars(HeartbeatTick)
    /\ SF_vars(HeartbeatResume)
    /\ \A h \in Handles : SF_vars(ConnSendResume(h))
    /\ SF_vars(ReaderResume)
    /\ WF_vars(ConnRecv)

FairSpecConn == InitConn /\ [][ConnNext]_vars /\ ConnFairness

ValidatedOps ==
    {"begin_connect", "begin_handshake", "complete_handshake",
     "begin_disconnect", "finish_disconnect"}

\* The edges of the lifecycle graph on which a validated operation succeeds.
AllowedEdge(op, from, to) ==
    \/ op = "begin_connect" /\ from = "Disconnected" /\ to = "Connecting"
    \/ op = "begin_handshake" /\ from = "Connecting" /\ to = "Handshaking"
    \/ op = "complete_handshake" /\ from = "Handshaking" /\ to = "Connected"
    \/ op = "begin_disconnect" /\ from \in {"Handshaking", "Connected"}
                               /\ to = "Disconnecting"
    \/ op = "finish_disconnect"
          /\ from \in {"Disconnecting", "Connecting", "Handshaking"}
          /\ to = "Disconnected"

HasEdge(op, from) == \E to \in PhaseKinds : AllowedEdge(op, from, to)

C6_ForceDisconnect ==
    [][/\ lastOp' = "force_disconnect" =>
              (lastRet' = "Ok" /\ phase' = Disconnected)
       /\ (phase.kind = "Connected" /\ phase'.kind = "Disconnected") =>
              lastOp' = "force_disconnect"
       /\ (phase.kind = "Connected" /\ lastOp' \in ValidatedOps) =>
              \/ lastRet' = "Ok" /\ phase' = Disconnecting
              \/ lastRet' = "ProtocolViolation" /\ phase' = phase]_vars

\* C6 witness: a connection that was Connected has just been force-reset.
C6_Witness ==
    /\ lastOp = "force_disconnect"
    /\ lastRet = "Ok"
    /\ phase = Disconnected
    /\ now > 1

\* ------------------------------------------------------------------------
\* Claims about the task pool
\* ------------------------------------------------------------------------

\* The race of a task is resolved once its select has picked a branch.
Resolved(t) == tpc[t] \in {"emitting", "done"}

\* The events a task has committed to: those sent, then those still to send.
Committed(t) == tsent[t] \o toutbox[t]

\* The terminal event of a task has been taken off the channel and processed.
Processed(t) ==
    /\ tpc[t] = "done"
    /\ \A i \in 1..Len(chan) : chan[i].task # t
    /\ inbox.task # t

\* C1: every spawned task, whatever the interleaving of body completion,
\* cancel_task / cancel_all and deadline expiry, puts exactly one terminal
\* event (Finished or Error) carrying its request id on the pool's channel:
\* never two, nothing before its race resolves, one committed as soon as the
\* race has resolved and delivered once the task has ended.
C1_OneTerminalEvent ==
    \A t \in TaskIds :
       /\ Len(tsent[t]) <= 1
       /\ ~Resolved(t) => Committed(t) = <<>>
       /\ Resolved(t) => Len(Committed(t)) = 1
       /\ tpc[t] = "done" => Len(tsent[t]) = 1
       /\ \A i \in 1..Len(Committed(t)) :
             /\ Committed(t)[i].id = treq[t]
             /\ Committed(t)[i].kind \in {"Finished", "Cancelled", "Timeout"}

\* C1 witness: two tasks have ended, each with one event sent: one was
\* cancelled with its deadline fired as well, the other finished.
C1_Witness ==
    \E t, u \in TaskIds :
       /\ t # u
       /\ tpc[t] = "done" /\ tpc[u] = "done"
       /\ ttoken[t] /\ texpired[t]
       /\ Len(tsent[t]) = 1 /\ Len(tsent[u]) = 1
       /\ tsent[u][1].kind = "Finished"

\* C2 as stated: whenever cancel_task returned true for a task or cancel_all
\* ran while it was tracked, the terminal event of that task is
\* Error(id, Cancelled).
C2_Original ==
    \A t \in TaskIds :
       (tsignal[t] # "no" /\ Resolved(t)) =>
           Committed(t) = <<ErrorCancelled(treq[t], t)>>

\* C2 amended: a task signalled by cancel_task / cancel_all while its race is
\* still open ends with Error(id, Cancelled) as its only event, even if its
\* deadline has fired or its body is ready; a task whose race had resolved
\* keeps the event it committed to. cancel_task returns true and signals the
\* tracked task, cancel_all signals every tracked task, and cancel_task on an
\* id that is not tracked returns false and changes nothing.
C2_CancelledWhileOpen ==
    /\ [](\A t \in TaskIds :
            (tsignal[t] = "open" /\ Resolved(t)) =>
                Committed(t) = <<ErrorCancelled(treq[t], t)>>)
    /\ [][\A t \in TaskIds : Resolved(t) => Committed(t)' = Committed(t)]_vars
    /\ [][\A id \in ReqIds :
            CancelTask(id) =>
               IF tasks[id] = 0
               THEN /\ cancelRet' = "false"
                    /\ UNCHANGED <<tasks, tpc, treq, ttimeout, ttoken,
                                   texpired, toutbox, tsent, tsignal, chan,
                                   inbox, ncb, cbCalls, awaiting>>
               ELSE /\ cancelRet' = "true"
                    /\ ttoken'[tasks[id]]]_vars
    /\ [][CancelAll =>
            \A id \in ReqIds : tasks[id] # 0 => ttoken'[tasks[id]]]_vars

\* C2 witness: one task was cancelled with its deadline already fired and
\* ended Cancelled; another was cancelled (cancel returned true) after its
\* race had resolved and kept its event.
C2_Witness ==
    \E t, u \in TaskIds :
       /\ tsignal[t] = "open" /\ texpired[t] /\ tpc[t] = "done"
       /\ tsent[t] = <<ErrorCancelled(treq[t], t)>>
       /\ tsignal[u] = "resolved" /\ tpc[u] = "done"
       /\ tsent[u][1].kind # "Cancelled"

\* C3: a task that is never cancelled emits Finished(id) when its body
\* completes before the deadline and Error(id, Timeout(d)), with its own
\* configured d, when the deadline fires first; a task without a deadline
\* never emits Timeout; and a task with a deadline eventually ends, with
\* Timeout(d) unless it was cancelled or its body completed.
C3_TimeoutOrFinished ==
    /\ [](\A t \in TaskIds :
            /\ (Resolved(t) /\ ~ttoken[t]) =>
                  Committed(t) =
                      IF texpired[t]
                      THEN <<ErrorTimeout(treq[t], ttimeout[t], t)>>
                      ELSE <<Finished(treq[t], t)>>
            /\ \A i \in 1..Len(Committed(t)) :
                  Committed(t)[i].kind = "Timeout" =>
                      /\ ttimeout[t] # NoTimeout
                      /\ Committed(t)[i].dur = ttimeout[t])
    /\ \A t \in TaskIds :
          (tpc[t] = "running" /\ ttimeout[t] # NoTimeout) ~>
              /\ tpc[t] = "done"
              /\ \/ ttoken[t]
                 \/ tsent[t] = <<Finished(treq[t], t)>>
                 \/ tsent[t] = <<ErrorTimeout(treq[t], ttimeout[t], t)>>

\* C3 witness: a task with a deadline that was never cancelled has ended
\* with Timeout(d) and the pool has processed that event.
C3_Witness ==
    \E t \in TaskIds :
       /\ Processed(t) /\ ~ttoken[t]
       /\ ttimeout[t] = 10
       /\ tsent[t] = <<ErrorTimeout(treq[t], 10, t)>>
       /\ ~is_active(treq[t])

\* C4: process_event on Finished(id) or Error(id, _) removes id from the pool
\* and calls every registered on_finished callback exactly once with id, for
\* success and error events alike; at all times is_active(id) holds exactly
\* for the ids that were spawned and have had no terminal event processed
\* since, and active_count is their number.
C4_ProcessEvent ==
    /\ [][(inbox # NoEvent /\ inbox' = NoEvent) =>
            /\ Len(cbCalls') = ncb
            /\ \A k \in 1..ncb : cbCalls'[k] = inbox.id
            /\ tasks'[inbox.id] = 0
            /\ \A id \in ReqIds \ {inbox.id} : tasks'[id] = tasks[id]]_vars
    /\ [](\A id \in ReqIds : is_active(id) <=> awaiting[id])
    /\ [](active_count = Cardinality({id \in ReqIds : awaiting[id]}))

\* C4 witness: an Error event has been processed with a callback registered,
\* the callback was called with its id, the id is no longer active and
\* another spawned id still is.
C4_Witness ==
    \E t, u \in TaskIds :
       /\ Processed(t)
       /\ tsent[t][1].kind \in {"Cancelled", "Timeout"}
       /\ ncb >= 1
       /\ cbCalls = [k \in 1..ncb |-> treq[t]]
       /\ ~is_active(treq[t])
       /\ tpc[u] # "unspawned"
       /\ treq[u] # treq[t]
       /\ is_active(treq[u])
       /\ active_count = 1

\* s is an initial part of t.
IsPrefix(s, t) == Len(s) <= Len(t) /\ SubSeq(t, 1, Len(s)) = s

C8_BoundedQueue ==
    [][ /\ Len(outq) <= OutCap
        /\ Len(outq') <= OutCap
        /\ (hbpc = "blocked" /\ hbpc' = "tick") =>
              (Len(outq) < OutCap /\ outq' = Append(outq, heartbeat))
        /\ (WriterAlive /\ Len(outq) = OutCap) =>
              \/ /\ wpc = "recv"
                 /\ wpc' = "write"
                 /\ wpkt' = Head(outq)
                 /\ outq' = Tail(outq)
              \/ /\ wpc = "write"
                 /\ wpc' = "failed"
              \/ /\ outq' = outq
                 /\ \A h \in Handles :
                       handle[h] = "blocked" =>
                          handle'[h] = "blocked" /\ hpkt'[h] = hpkt[h]
                 /\ hbpc = "blocked" => hbpc' = "blocked"
                 /\ hbpc = "tick" => hbpc' \in {"tick", "blocked"}
                 /\ nsent' # nsent =>
                       \E h \in Handles :
                          /\ handle[h] = "idle"
                          /\ handle'[h] = "blocked"
                          /\ hpkt'[h] = nsent'
      ]_vars

\* C8 witness: the writer is stalled in a write, the queue is full, and the
\* heartbeat task and a send() of the application both wait for a slot.
C8_Witness ==
    /\ wpc = "write"
    /\ Len(outq) = OutCap
    /\ hbpc = "blocked"
    /\ \E h \in Handles : handle[h] = "blocked"

\* A background task of the Connection has failed.
ReaderFailed == rpc \in {"error", "eof"}
WriterFailed == wpc = "failed"

\* recv() has returned None, or the application gave the Connection up.
RecvEnded == recvNone \/ ~ConnAlive

\* C9 as stated: after a failure of the reader or of the writer, recv()
\* eventually returns None.
C9_Original == (ReaderFailed \/ WriterFailed) ~> RecvEnded

\* C9, the part the code keeps: after a failure of the reader, recv()
\* eventually returns None.
C9_ReaderFailure == ReaderFailed ~> RecvEnded

\* C9 witness: the reader failed with a packet still queued inbound, the
\* packet was drained and recv() then returned None.
C9_Witness ==
    /\ ReaderFailed
    /\ arrived # <<>>
    /\ got = arrived
    /\ recvNone

\* The application holds no handle of the Connection any more.
AppGone ==
    /\ handle["conn"] = "dropped"
    /\ handle["clone"] \in {"absent", "dropped"}

\* The writer, heartbeat and reader tasks have returned (and with the
\* writer and the reader the two halves of the stream are released).
AllTerminated ==
    /\ ~WriterAlive
    /\ hbpc = "done"
    /\ ~ReaderAlive

\* C10 as stated: once the application holds no handle, the three tasks
\* eventually terminate.
C10_Original == AppGone ~> AllTerminated

\* C10, what the code does instead: the writer never finds the outbound
\* queue closed, and the heartbeat task returns only after the writer has
\* failed.
C10_WriterNeverSeesClose ==
    /\ wpc # "closed"
    /\ hbpc = "done" => wpc = "failed"

\* C10 witness: the application holds no handle, and the writer is writing
\* a heartbeat.
C10_Witness ==
    /\ AppGone
    /\ wpc = "write"
    /\ wpkt = heartbeat

\* The decode call that was made last, if any, on the buffer pbefore.
Decoded == pdecoded # NoResult

\* The length the header at the front of b declares.
Declared(b) == b[6]

\* The buffer b starts with a complete header of an accepted magic.
HasHeader(b) == Len(b) >= HEADER_SIZE /\ b[1] \in {MAGIC, LEGACY_MAGIC}

\* C11: a decode call returns one result; when it is "need more" the buffer
\* is as it was, and fewer than HEADER_SIZE bytes, or fewer than HEADER_SIZE
\* plus the declared length, were buffered; when it is a packet, the packet
\* is the first HEADER_SIZE + payload_length bytes of the buffer, exactly
\* those bytes were taken off the front, and the bytes behind them are left
\* as they were.
C11_DecodeFrameEffect ==
    Decoded =>
       /\ pdecoded.kind = "None" =>
             /\ pbytes = pbefore
             /\ \/ Len(pbefore) < HEADER_SIZE
                \/ Len(pbefore) < HEADER_SIZE + Declared(pbefore)
       /\ pdecoded.kind = "Ok" =>
             LET total == HEADER_SIZE + pdecoded.pkt.header.payload_length
             IN  /\ Len(pbefore) >= total
                 /\ header_to_bytes(pdecoded.pkt.header) \o pdecoded.pkt.payload
                       = SubSeq(pbefore, 1, total)
                 /\ pbytes = SubSeq(pbefore, total + 1, Len(pbefore))

\* C11 witness: decode yielded a packet with a payload and left behind it
\* the complete frame that followed, which the next call would yield.
C11_Witness ==
    /\ Decoded
    /\ pdecoded.kind = "Ok"
    /\ pdecoded.pkt.payload # <<>>
    /\ pbytes # <<>>
    /\ decode(pbytes).res.kind = "Ok"
    /\ decode(pbytes).buf = <<>>

\* The invariants of a packet: payload within the cap, declared length equal
\* to the payload's, and for a non-empty payload a checksum that is
\* Blake3(payload) and not all zero.
PacketInvariants(p) ==
    /\ Len(p.payload) <= MAX_PAYLOAD_SIZE
    /\ p.header.payload_length = Len(p.payload)
    /\ p.payload # <<>> =>
          /\ p.header.checksum = Blake3(p.payload)
          /\ p.header.checksum # ZeroChecksum

\* The buffer b starts with a complete frame, of an accepted magic and a
\* declared length within the cap, whose non-empty payload does not match
\* its checksum.
Mismatching(b) ==
    /\ HasHeader(b)
    /\ Declared(b) \in 1..MAX_PAYLOAD_SIZE
    /\ Len(b) >= HEADER_SIZE + Declared(b)
    /\ b[2] # Blake3(SubSeq(b, HEADER_SIZE + 1, HEADER_SIZE + Declared(b)))

\* What C12 says of constructors and of the packets decode yields.
C12_Produced ==
    /\ pbuilt.kind = "Ok" =>
          /\ PacketInvariants(pbuilt.pkt)
          /\ pbuilt.pkt.payload = pargs.payload
          /\ pbuilt.pkt.payload = <<>> =>
                pbuilt.pkt.header.checksum = ZeroChecksum
    /\ pbuilt.kind = "Err" =>
          /\ pbuilt.err = "PayloadTooLarge"
          /\ Len(pargs.payload) > MAX_PAYLOAD_SIZE
    /\ (Decoded /\ pdecoded.kind = "Ok") => PacketInvariants(pdecoded.pkt)

\* C12 as stated: packets built or decoded keep the invariants, and a frame
\* whose payload does not match its checksum is rejected with
\* ChecksumMismatch.
C12_Original ==
    /\ C12_Produced
    /\ (Decoded /\ Mismatching(pbefore)) => pdecoded = Fail("ChecksumMismatch")

\* C12 amended: packets built or decoded keep the invariants, and a frame
\* whose payload does not match its checksum is never delivered: decode
\* fails with FrameTooLarge when more than MAX_FRAME_SIZE bytes are
\* buffered, else with ProtocolViolation when the checksum is all zero, else
\* with ChecksumMismatch.
C12_MismatchRejected ==
    /\ C12_Produced
    /\ (Decoded /\ Mismatching(pbefore)) =>
          pdecoded =
             Fail(IF Len(pbefore) > MAX_FRAME_SIZE THEN "FrameTooLarge"
                  ELSE IF pbefore[2] = ZeroChecksum THEN "ProtocolViolation"
                  ELSE "ChecksumMismatch")

\* C12 witness: decode rejected with ChecksumMismatch a frame whose payload
\* does not match its non-zero checksum.
C12_Witness ==
    /\ Decoded
    /\ Mismatching(pbefore)
    /\ pbefore[2] # ZeroChecksum
    /\ pdecoded = Fail("ChecksumMismatch")

\* The buffer b starts with a complete header, of an accepted magic, that
\* declares more than the cap.
Oversize(b) == HasHeader(b) /\ Declared(b) > MAX_PAYLOAD_SIZE

\* r is the error PayloadTooLarge.
IsPayloadTooLarge(r) == r.kind = "Err" /\ r.err = "PayloadTooLarge"

\* C13 as stated: for a header that declares more than the cap,
\* PacketHeader::from_bytes, Packet::from_bytes and TixCodec::decode all
\* fail with PayloadTooLarge, however many bytes are buffered.
C13_Original ==
    /\ (hparsed # NoResult /\ Oversize(pbytes)) => IsPayloadTooLarge(hparsed)
    /\ (pparsed # NoResult /\ Oversize(pbytes)) => IsPayloadTooLarge(pparsed)
    /\ (Decoded /\ Oversize(pbefore)) => IsPayloadTooLarge(pdecoded)

\* C13, what the code does: for such a header PacketHeader::from_bytes
\* succeeds; Packet::from_bytes fails with PayloadTooLarge only when exactly
\* HEADER_SIZE plus the declared length bytes are supplied and with
\* InvalidPacketLength otherwise; decode fails with PayloadTooLarge unless
\* more than MAX_FRAME_SIZE bytes are buffered, and then with FrameTooLarge.
C13_OversizeResults ==
    /\ (hparsed # NoResult /\ Oversize(pbytes)) => hparsed.kind = "Ok"
    /\ (pparsed # NoResult /\ Oversize(pbytes)) =>
          IF Len(pbytes) = HEADER_SIZE + Declared(pbytes)
          THEN IsPayloadTooLarge(pparsed)
          ELSE pparsed = Fail("InvalidPacketLength")
    /\ (Decoded /\ Oversize(pbefore)) =>
          IF Len(pbefore) > MAX_FRAME_SIZE
          THEN pdecoded = Fail("FrameTooLarge")
          ELSE IsPayloadTooLarge(pdecoded)

\* C13 witness: the three functions were applied to the same bytes, whose
\* header declares more than the cap, and only decode failed with
\* PayloadTooLarge.
C13_Witness ==
    /\ Oversize(pbytes)
    /\ pbefore = pbytes
    /\ IsPayloadTooLarge(pdecoded)
    /\ hparsed.kind = "Ok"
    /\ pparsed = Fail("InvalidPacketLength")

\* C14: a packet built from message type T, command C, request id R,
\* payload P and observable flags F, serialised with to_bytes and parsed
\* with from_bytes, comes back with the same T, C, R, P and F and the same
\* checksum; its flags() never show the response bit.
C14_RoundTrip ==
    /\ (pbuilt.kind = "Ok" /\ psrc # "none") => psrc # "error"
    /\ (pbuilt.kind = "Ok" /\ psrc = "to_bytes" /\ pparsed # NoResult) =>
          /\ pparsed.kind = "Ok"
          /\ message_type(pparsed.pkt.header) = pargs.message_type
          /\ command(pparsed.pkt.header) =
                [kind |-> "Ok", command |-> pargs.command]
          /\ pparsed.pkt.header.request_id = pargs.request_id
          /\ pparsed.pkt.payload = pargs.payload
          /\ flags(pparsed.pkt.header) = pargs.flags
          /\ ~HasBit(flags(pparsed.pkt.header), ResponseBit)
          /\ pparsed.pkt.header.checksum = pbuilt.pkt.header.checksum
          /\ (message_type(pparsed.pkt.header) = Response)
                <=> (pargs.message_type = Response)

\* C14 witness: a Response with a payload and all five flags went through
\* to_bytes and from_bytes.
C14_Witness ==
    /\ pbuilt.kind = "Ok"
    /\ psrc = "to_bytes"
    /\ pparsed.kind = "Ok"
    /\ pargs.message_type = Response
    /\ pargs.flags = AllFlags
    /\ pargs.payload # <<>>

\* C15, decoding: a complete header is accepted when its magic is TIX0 or
\* TIX1 and rejected with InvalidMagic otherwise, by PacketHeader::from_bytes
\* and by decode (which looks at the magic before anything but the buffer's
\* length).
C15_MagicOnDecode ==
    /\ (hparsed # NoResult /\ Len(pbytes) >= HEADER_SIZE) =>
          IF pbytes[1] \in {MAGIC, LEGACY_MAGIC}
          THEN hparsed.kind = "Ok"
          ELSE hparsed = Fail("InvalidMagic")
    /\ (Decoded /\ Len(pbefore) >= HEADER_SIZE
          /\ Len(pbefore) <= MAX_FRAME_SIZE) =>
          (pdecoded = Fail("InvalidMagic"))
             <=> (pbefore[1] \notin {MAGIC, LEGACY_MAGIC})
    /\ (pbuilt.kind = "Ok" /\ psrc = "to_bytes") => pbytes[1] = MAGIC

\* C15 as stated: magic is checked on decode as above, and every byte
\* string produced by to_bytes or the encoder begins with TIX1, also when
\* the packet serialised was itself decoded from bytes carrying TIX0.
C15_Original ==
    /\ C15_MagicOnDecode
    /\ psrc = "to_bytes" => pbytes[1] = MAGIC

\* C15 witness: a header with another magic was rejected with InvalidMagic.
C15_Witness ==
    /\ Len(pbytes) >= HEADER_SIZE
    /\ pbytes[1] = OtherMagic
    /\ hparsed = Fail("InvalidMagic")

\* C16: resolve(id) returns the tracked packet exactly when id is pending
\* and removes it, and returns none and changes nothing otherwise; a
\* request tracked with packet p is pending and its first resolve returns
\* p; pending_count is the number of ids tracked and since neither resolved
\* nor drained.
C16_ResolveAndCount ==
    /\ mlast.op = "resolve" =>
          IF is_request_pending(mbefore, mlast.id)
          THEN /\ mlast.ret = mbefore[mlast.id].packet
               /\ ~is_request_pending(requests, mlast.id)
               /\ requests = Remove(mbefore, {mlast.id})
               /\ resolve(requests, mlast.id).ret = "None"
               /\ resolve(requests, mlast.id).table = requests
          ELSE /\ mlast.ret = "None"
               /\ requests = mbefore
    /\ DOMAIN requests = DOMAIN mlive
    /\ \A id \in DOMAIN mlive :
          /\ is_request_pending(requests, id)
          /\ resolve(requests, id).ret = mlive[id]
    /\ pending_count(requests) = Cardinality(DOMAIN mlive)

\* C16 witness: resolve returned the packet of one of two pending requests,
\* and the other one stays pending.
C16_Witness ==
    /\ mlast.op = "resolve"
    /\ mlast.ret # "None"
    /\ pending_count(mbefore) = 2
    /\ pending_count(requests) = 1

\* C17: a request tracked by track() carries the default timeout that was
\* configured when track() was called, whatever the default is now; a
\* request whose deadline is unset is not reported by check_timeouts or
\* drain_expired, at any time.
C17_DefaultAtCallTime ==
    /\ \A id \in DOMAIN mapplied :
          /\ is_request_pending(requests, id)
          /\ requests[id].deadline = mapplied[id]
    /\ \A id \in DOMAIN requests :
          requests[id].deadline = NoDeadline =>
             \A t \in 0..MaxMasterClock :
                /\ id \notin check_timeouts(requests, t)
                /\ id \notin DOMAIN drain_expired(requests, t).ret
    /\ mlast.op = "check_timeouts" =>
          \A id \in mlast.ret : mbefore[id].deadline # NoDeadline
    /\ mlast.op = "drain_expired" =>
          \A id \in DOMAIN mlast.ret : mbefore[id].deadline # NoDeadline

\* C17 witness: check_timeouts did not report a request that was tracked by
\* track() while no default was set, although a default was set afterwards
\* and more time than that default has passed since.
C17_Witness ==
    /\ mlast.op = "check_timeouts"
    /\ mclock = mlast.at
    /\ \E id \in DOMAIN mapplied :
          /\ mapplied[id] = NoDeadline
          /\ default_timeout # NoDeadline
          /\ mclock - requests[id].sent_at > default_timeout
          /\ id \notin mlast.ret

\* The deadline of req has elapsed at time t.
Elapsed(req, t) == req.deadline # NoDeadline /\ t - req.sent_at > req.deadline

\* C18: a request leaves the table only in resolve or drain_expired, so a
\* request whose deadline has elapsed is still pending and resolve still
\* returns its packet; check_timeouts returns the ids whose deadline has
\* elapsed and leaves the table as it was.
C18_ExpiryNotAutomatic ==
    /\ mlast.op \notin {"resolve", "drain_expired"} =>
          DOMAIN mbefore \subseteq DOMAIN requests
    /\ mlast.op = "check_timeouts" =>
          /\ requests = mbefore
          /\ mlast.ret = {id \in DOMAIN mbefore : Elapsed(mbefore[id], mlast.at)}
    /\ \A id \in DOMAIN mlive :
          Elapsed(requests[id], mclock) =>
             /\ is_request_pending(requests, id)
             /\ resolve(requests, id).ret = mlive[id]

\* C18 witness: check_timeouts reported a request whose deadline elapsed
\* more than one tick ago, and the request is still pending.
C18_Witness ==
    /\ mlast.op = "check_timeouts"
    /\ \E id \in mlast.ret :
          /\ mlast.at - requests[id].sent_at > requests[id].deadline + 1
          /\ is_request_pending(requests, id)

\* C19: drain_expired returns exactly the requests whose deadline has
\* elapsed at the time of the call, the ids check_timeouts reports, each
\* once and as it was tracked; it removes those and leaves every other
\* request as it was; a second drain_expired at the same time returns
\* nothing.
C19_DrainExpired ==
    mlast.op = "drain_expired" =>
       LET expired == {id \in DOMAIN mbefore : Elapsed(mbefore[id], mlast.at)}
       IN  /\ DOMAIN mlast.ret = expired
           /\ expired = check_timeouts(mbefore, mlast.at)
           /\ \A id \in expired : mlast.ret[id] = mbefore[id]
           /\ DOMAIN requests = DOMAIN mbefore \ expired
           /\ \A id \in DOMAIN requests : requests[id] = mbefore[id]
           /\ DOMAIN drain_expired(requests, mlast.at).ret = {}
           /\ drain_expired(requests, mlast.at).table = requests

\* C19 witness: drain_expired returned an expired request and left pending
\* a request whose deadline has not elapsed yet.
C19_Witness ==
    /\ mlast.op = "drain_expired"
    /\ mlast.ret # <<>>
    /\ \E id \in DOMAIN requests :
          /\ requests[id].deadline # NoDeadline
          /\ ~Elapsed(requests[id], mlast.at)

\* C20: register_task(id) returns true and adds id when it is absent and
\* returns false and changes nothing when it is present; complete_task(id)
\* returns true and removes id when it is present and returns false and
\* changes nothing otherwise; active_task_count is the number of ids
\* registered and not completed since.
C20_RegisterComplete ==
    /\ slast.op = "register_task" =>
          IF slast.id \in sbefore
          THEN slast.ret = FALSE /\ active_tasks = sbefore
          ELSE slast.ret = TRUE /\ active_tasks = sbefore \cup {slast.id}
    /\ slast.op = "complete_task" =>
          IF slast.id \in sbefore
          THEN slast.ret = TRUE /\ active_tasks = sbefore \ {slast.id}
          ELSE slast.ret = FALSE /\ active_tasks = sbefore
    /\ active_tasks = slive
    /\ active_task_count(active_tasks) = Cardinality(slive)
    /\ \A id \in scompleted \ active_tasks :
          /\ register_task(active_tasks, id).ret = TRUE
          /\ is_task_running(register_task(active_tasks, id).set, id)

\* C20 witness: an id that was completed before was registered again, and
\* register_task returned true.
C20_Witness ==
    /\ slast.op = "register_task"
    /\ slast.ret = TRUE
    /\ slast.id \in scompleted
    /\ is_task_running(active_tasks, slast.id)
    /\ active_task_count(active_tasks) = 2

\* C21: negotiate is commutative and idempotent, its result is the
\* pointwise AND of the booleans and the minimum of max_payload_size, and
\* when the master negotiated with the slave's local record and the slave
\* with the master's, both sides store the same record.
C21_NegotiateSymmetric ==
    /\ negotiate(master_local, slave_local)
          = negotiate(slave_local, master_local)
    /\ negotiate(master_local, master_local) = master_local
    /\ negotiate(slave_local, slave_local) = slave_local
    /\ LET n == negotiate(master_local, slave_local)
       IN  /\ n.shell_streaming
                = (master_local.shell_streaming /\ slave_local.shell_streaming)
           /\ n.file_delta_sync
                = (master_local.file_delta_sync /\ slave_local.file_delta_sync)
           /\ n.screen_capture
                = (master_local.screen_capture /\ slave_local.screen_capture)
           /\ n.compression
                = (master_local.compression /\ slave_local.compression)
           /\ n.max_payload_size <= master_local.max_payload_size
           /\ n.max_payload_size <= slave_local.max_payload_size
           /\ n.max_payload_size \in {master_local.max_payload_size,
                                       slave_local.max_payload_size}
    /\ (/\ master_negotiated.set
        /\ slave_negotiated.set
        /\ master_args.remote = slave_args.local
        /\ slave_args.remote = master_args.local)
          => master_negotiated.caps = slave_negotiated.caps

\* C21 witness: both sides negotiated with each other's record, the two
\* records differ in a boolean each way and in max_payload_size, and the
\* stored record is neither side's own.
C21_Witness ==
    /\ master_negotiated.set
    /\ slave_negotiated.set
    /\ master_args.remote = slave_args.local
    /\ slave_args.remote = master_args.local
    /\ master_args.local.compression /\ ~slave_args.local.compression
    /\ ~master_args.local.screen_capture /\ slave_args.local.screen_capture
    /\ master_args.local.max_payload_size < slave_args.local.max_payload_size
    /\ master_negotiated.caps \notin {master_args.local, slave_args.local}

\* C22: the ids add_request returns are 1, 2, 3, ... in call order, so none
\* is 0 and none is returned twice, whatever was removed, solved or failed
\* in between; every id in the table was issued; a heartbeat packet carries
\* request id 0 and an empty payload, so its id is none of the issued ones.
C22_RequestIds ==
    /\ \A i \in 1..Len(rm_issued) : rm_issued[i] = i
    /\ next_req_id = Len(rm_issued) + 1
    /\ \A i, j \in 1..Len(rm_issued) : rm_issued[i] = rm_issued[j] => i = j
    /\ \A id \in DOMAIN rm_requests : \E i \in 1..Len(rm_issued) : rm_issued[i] = id
    /\ rm_heartbeat # NoResult =>
          /\ rm_heartbeat.pkt.header.request_id = 0
          /\ rm_heartbeat.pkt.payload = <<>>
          /\ rm_heartbeat.pkt.header.payload_length = 0
          /\ \A i \in 1..Len(rm_issued) :
                rm_issued[i] # rm_heartbeat.pkt.header.request_id

\* C22 witness: ids were issued after earlier requests were removed, and a
\* heartbeat was built.
C22_Witness ==
    /\ Len(rm_issued) = 3
    /\ DOMAIN rm_requests = {3}
    /\ rm_heartbeat # NoResult


\* ------------------------------------------------------------------------
\* ScreenTransport claims
\* ------------------------------------------------------------------------

\* The frame header datagram and the chunk datagrams of the i-th frame sent.
HeaderDatagram(i) == t_sent[i].datagrams[1]

ChunkDatagrams(i) ==
    {t_sent[i].datagrams[j] : j \in 2..Len(t_sent[i].datagrams)}

\* receive_frame has returned r_result, having read the header datagram of
\* the i-th frame first and every chunk datagram of that frame.
ReceivedAll(i) ==
    /\ r_pc = "done"
    /\ r_first = HeaderDatagram(i)
    /\ ChunkDatagrams(i) \subseteq r_seen

\* The returned frame has the fields of the frame handed to send_frame.
SameFrame(result, frame) ==
    /\ result.frame_number = frame.frame_number
    /\ result.width = frame.width
    /\ result.height = frame.height
    /\ result.is_full_frame = frame.is_full_frame
    /\ result.data = frame.data

\* C23 as stated: when the frame header datagram of a frame is read first
\* and every chunk of that frame is delivered, in any order and with any
\* duplicates, receive_frame returns the frame passed to send_frame.
C23_Original ==
    \A i \in 1..Len(t_sent) : ReceivedAll(i) => SameFrame(r_result, t_sent[i].frame)

\* C23: the same, for deliveries in which the frame header datagram itself
\* is not delivered a second time; chunks come in any order, any number of
\* times, mixed with the datagrams of another frame.
C23_ReassembledFrame ==
    \A i \in 1..Len(t_sent) :
        (ReceivedAll(i) /\ ~r_again)
            => SameFrame(r_result, t_sent[i].frame)

\* A frame of two chunks or more returned after its chunks came in
\* descending order, one of them twice, with a datagram of the other frame
\* in between.
C23_Witness ==
    \E i \in 1..Len(t_sent) :
        /\ ReceivedAll(i) /\ ~r_again
        /\ Len(r_order) >= 2 /\ r_order[1] > r_order[2]
        /\ r_dup
        /\ \E j \in 1..Len(t_sent) : j # i /\ HeaderDatagram(j) \in r_seen
        /\ SameFrame(r_result, t_sent[i].frame)


\* receive_frame took the header datagram of the i-th frame sent as its
\* frame header, a chunk of that frame was lost before the call read it, and
\* the sender has sent the next frame.
LostChunkOf(i) ==
    /\ r_pc \in {"chunks", "done"}
    /\ i + 1 <= Len(t_sent)
    /\ r_first = HeaderDatagram(i)
    /\ (r_lost \cap ChunkDatagrams(i)) \ r_seen # {}

\* C24 as stated: a lost chunk stalls only the current frame. On reading
\* the frame header of frame k+1 the pending receive_frame drops the partial
\* frame k and collects frame k+1, which it returns once its datagrams have
\* arrived.
C24_Original ==
    \A i \in 1..Len(t_sent) :
        (LostChunkOf(i) /\ HeaderDatagram(i + 1) \in r_seen)
            => /\ r_header.sequence = t_sent[i + 1].seq
               /\ (ChunkDatagrams(i + 1) \subseteq r_seen => r_pc = "done")

\* C24, what receive_frame does: it keeps the frame header it read first
\* and the chunks collected for it, whatever it reads afterwards, and with
\* a chunk of that frame lost it does not return (a second copy of the
\* header datagram aside, which it takes for a chunk).
C24_PartialFrameKept ==
    \A i \in 1..Len(t_sent) :
        LostChunkOf(i)
            => /\ r_header = FrameHeader_decode(HeaderDatagram(i)).header
               /\ \A c \in DOMAIN r_chunks :
                      \/ r_chunks[c] = NoChunk
                      \/ \E d \in r_seen \cap (ChunkDatagrams(i) \cup {HeaderDatagram(i)}) :
                             r_chunks[c] = SubSeq(d, ChunkHeader_SIZE + 1, Len(d))
               /\ (~r_again => r_pc = "chunks")

\* The receiver still waits for the lost chunk of the first frame after it
\* has read every datagram of the second.
C24_Witness ==
    /\ Len(t_sent) = 2
    /\ LostChunkOf(1)
    /\ ~r_again
    /\ r_order # <<>>
    /\ HeaderDatagram(2) \in r_seen
    /\ ChunkDatagrams(2) # {} /\ ChunkDatagrams(2) \subseteq r_seen
    /\ r_pc = "chunks"
    /\ r_header.sequence = t_sent[1].seq


\* ceil(a / b), for b > 0.
Ceil(a, b) == IF a % b = 0 THEN a \div b ELSE a \div b + 1

\* The chunk datagrams of the i-th frame sent fit the MTU, carry at most
\* MTU - 12 bytes of payload each, and are ceil(data length / (MTU - 12)) in
\* number, which is the total_chunks of the frame header.
ChunksFit(i) ==
    LET datagrams == t_sent[i].datagrams
        header == FrameHeader_decode(datagrams[1]).header
    IN  /\ \A j \in 2..Len(datagrams) :
               /\ Len(datagrams[j]) <= t_mtu
               /\ Len(datagrams[j]) - ChunkHeader_SIZE <= t_mtu - ChunkHeader_SIZE
               /\ Len(datagrams[j]) - ChunkHeader_SIZE
                      = ChunkHeader_decode(datagrams[j]).header.chunk_size
        /\ header.total_chunks
               = Ceil(Len(t_sent[i].frame.data), t_mtu - ChunkHeader_SIZE)
        /\ Len(datagrams) - 1 = header.total_chunks

\* The sequence numbers of successive frames strictly increase.
SequencesIncrease ==
    \A i, j \in 1..Len(t_sent) : i < j => t_sent[i].seq < t_sent[j].seq

\* C25 as stated: for every MTU with_mtu accepts, every datagram send_frame
\* emits, the frame header included, is at most MTU bytes; chunks carry at
\* most MTU - 12 payload bytes, total_chunks is ceil(data length / (MTU - 12))
\* and sequence numbers strictly increase.
C25_Original ==
    /\ \A i \in 1..Len(t_sent) :
           /\ \A j \in 1..Len(t_sent[i].datagrams) :
                  Len(t_sent[i].datagrams[j]) <= t_mtu
           /\ ChunksFit(i)
    /\ SequencesIncrease

\* C25, what send_frame does: the chunk datagrams are as stated and the
\* sequence numbers strictly increase, while the frame header datagram has
\* FrameHeader::SIZE bytes whatever the MTU, so it fits exactly when the MTU
\* is at least FrameHeader::SIZE.
C25_ChunksWithinMtu ==
    /\ \A i \in 1..Len(t_sent) :
           /\ ChunksFit(i)
           /\ Len(HeaderDatagram(i)) = FrameHeader_SIZE
           /\ (Len(HeaderDatagram(i)) <= t_mtu <=> t_mtu >= FrameHeader_SIZE)
    /\ SequencesIncrease
    /\ with_mtu(t_mtu)

\* Two frames sent with an MTU below FrameHeader::SIZE, the second in
\* several chunks of which the last is shorter than the others.
C25_Witness ==
    /\ t_mtu < FrameHeader_SIZE
    /\ Len(t_sent) = 2
    /\ Len(t_sent[2].datagrams) >= 3
    /\ Len(t_sent[2].datagrams[Len(t_sent[2].datagrams)]) < t_mtu
    /\ Len(t_sent[2].datagrams[2]) = t_mtu
    /\ C25_ChunksWithinMtu


\* ------------------------------------------------------------------------
\* DeltaDetector claims
\* ------------------------------------------------------------------------

\* Byte j of the pixel at (x, y) of a frame.
ByteAt(frame, x, y, j) ==
    frame.data[y * frame.stride + x * bytes_per_pixel(frame.format) + j + 1]

\* The pixels in which two frames of one size differ.
DifferingPixels(current, previous) ==
    {p \in PixelsOf(<<current.width, current.height>>) :
        \E j \in 0..(bytes_per_pixel(current.format) - 1) :
            ByteAt(current, p[1], p[2], j) # ByteAt(previous, p[1], p[2], j)}

\* The bs-aligned tiles of a w x h frame, clipped at the right and bottom
\* edges.
AlignedTiles(w, h, bs) ==
    {[x |-> bx * bs, y |-> by * bs,
      width |-> Min(bs, w - bx * bs), height |-> Min(bs, h - by * bs)] :
        bx \in 0..(Ceil(w, bs) - 1), by \in 0..(Ceil(h, bs) - 1)}

Inside(p, b) ==
    /\ b.x <= p[1] /\ p[1] < b.x + b.width
    /\ b.y <= p[2] /\ p[2] < b.y + b.height

\* The tiles holding a pixel in which the two frames differ.
DifferingTiles(current, previous, bs) ==
    {b \in AlignedTiles(current.width, current.height, bs) :
        \E p \in DifferingPixels(current, previous) : Inside(p, b)}

SameSize(current, previous) ==
    previous.width = current.width /\ previous.height = current.height

\* More than 80% of the tiles differ.
MostTilesDiffer(current, previous, bs) ==
    5 * Cardinality(DifferingTiles(current, previous, bs))
        > 4 * Cardinality(AlignedTiles(current.width, current.height, bs))

\* C26: detect yields full_frame = true, with the whole frame as its only
\* block, on the first call after construction or reset, when the width or
\* the height differs from the stored frame's, and when more than 80% of the
\* tiles differ from the stored frame; otherwise full_frame = false.
C26_FullFrameCases ==
    d_last.op = "detect" =>
        LET current == d_last.current
            previous == d_last.previous
            full == \/ previous = NoFrame
                    \/ ~SameSize(current, previous)
                    \/ MostTilesDiffer(current, previous, d_block_size)
        IN  /\ d_last.delta.full_frame = full
            /\ full => d_last.delta.changed_blocks = <<WholeFrame(current)>>
            /\ d_last.after \in {"new", "reset"} => previous = NoFrame

\* A call with a stored frame of the same size in which every tile of
\* several differs, and so yields a full frame.
C26_Witness ==
    /\ d_last.op = "detect"
    /\ d_last.previous # NoFrame
    /\ SameSize(d_last.current, d_last.previous)
    /\ Cardinality(AlignedTiles(d_last.current.width, d_last.current.height,
                                d_block_size)) = 5
    /\ MostTilesDiffer(d_last.current, d_last.previous, d_block_size)
    /\ d_last.delta.full_frame
    /\ d_last.delta.changed_blocks = <<WholeFrame(d_last.current)>>

Range(f) == {f[i] : i \in DOMAIN f}

\* C27: when the stored frame has the size of the incoming one and at most
\* 80% of the tiles differ, changed_blocks holds exactly the aligned tiles,
\* clipped at the right and bottom edges, in which a byte differs from the
\* frame of the preceding detect call, each once: none for identical frames
\* and one, holding the pixel, for a single changed pixel.
C27_ChangedBlocks ==
    (/\ d_last.op = "detect"
     /\ d_last.previous # NoFrame
     /\ SameSize(d_last.current, d_last.previous)
     /\ ~MostTilesDiffer(d_last.current, d_last.previous, d_block_size))
        => LET current == d_last.current
               previous == d_last.previous
               changed == d_last.delta.changed_blocks
               pixels == DifferingPixels(current, previous)
           IN  /\ ~d_last.delta.full_frame
               /\ d_last.after = "detect"
               /\ Range(changed) = DifferingTiles(current, previous, d_block_size)
               /\ Len(changed) = Cardinality(Range(changed))
               /\ pixels = {} => changed = <<>>
               /\ Cardinality(pixels) = 1
                      => /\ Len(changed) = 1
                         /\ \A p \in pixels : Inside(p, changed[1])

\* A single pixel changed in the clipped tile at the right edge, together
\* with the row padding: one block of one pixel.
C27_Witness ==
    /\ d_last.op = "detect"
    /\ d_last.previous # NoFrame
    /\ SameSize(d_last.current, d_last.previous)
    /\ d_block_size = 2
    /\ DifferingPixels(d_last.current, d_last.previous) = {<<4, 0>>}
    /\ d_last.current.data # d_last.previous.data
    /\ d_last.current.stride > 5 * bytes_per_pixel(d_last.current.format)
    /\ d_last.current.data[d_last.current.stride]
           # d_last.previous.data[d_last.previous.stride]
    /\ d_last.delta.changed_blocks = <<[x |-> 4, y |-> 0, width |-> 1, height |-> 1]>>
    /\ ~d_last.delta.full_frame


\* ------------------------------------------------------------------------
\* AdaptiveEncoder claims
\* ------------------------------------------------------------------------

\* What an adjust_quality call did to the encoder, for a given reading of
\* "measured is below 80% of the target".
Adjusted(below) ==
    IF e_last.measured > target_bandwidth
    THEN /\ quality = Max(e_last.quality - 5, 0)
         /\ compression_level = Min(e_last.compression_level + 1, 9)
    ELSE IF below
         THEN /\ quality = Min(e_last.quality + 5, 100)
              /\ compression_level = Max(e_last.compression_level - 1, 1)
         ELSE /\ quality = e_last.quality
              /\ compression_level = e_last.compression_level

QualityInRange ==
    e_last.op # "none"
        => /\ 1 <= compression_level /\ compression_level <= 9
           /\ 0 <= quality /\ quality <= 100

BufferByte(decoder, x, y, j, bpp) ==
    decoder.frame_buffer[(y * decoder.buf_width + x) * bpp + j + 1]

\* The decoder's frame buffer has the size of raw and shows its pixels.
Shows(decoder, raw, bpp) ==
    /\ decoder.buf_width = raw.width /\ decoder.buf_height = raw.height
    /\ Len(decoder.frame_buffer) = raw.width * raw.height * bpp
    /\ \A p \in PixelsOf(<<raw.width, raw.height>>), j \in 0..(bpp - 1) :
           BufferByte(decoder, p[1], p[2], j, bpp) = ByteAt(raw, p[1], p[2], j)

\* The pixel p lies in a block of the delta frame.
Covered(p, delta) ==
    \E i \in 1..Len(delta.changed_blocks) : Inside(p, delta.changed_blocks[i])

\* C28: encode(D, source), decoded and applied to a new decoder, gives a
\* frame buffer of the frame's size in which every pixel inside a block of
\* D is the source pixel at that place, row padding left out, and, for a
\* partial D, every other pixel is zero.
C28_RoundTrip ==
    (c_last.op = "apply" /\ s_config.mode = "direct")
        => LET delta == c_last.delta
               raw == c_last.raw
               bpp == c_last.bpp
           IN  /\ c_last.before = NewDecoder
               /\ c_last.kind = "Ok"
               /\ c_decoder.buf_width = raw.width
               /\ c_decoder.buf_height = raw.height
               /\ Len(c_decoder.frame_buffer) = raw.width * raw.height * bpp
               /\ \A p \in PixelsOf(<<raw.width, raw.height>>),
                     j \in 0..(bpp - 1) :
                      BufferByte(c_decoder, p[1], p[2], j, bpp)
                          = IF Covered(p, delta)
                            THEN ByteAt(raw, p[1], p[2], j) ELSE 0
               /\ c_last.frame.is_full_frame = delta.full_frame
               /\ c_last.frame.block_count = Len(delta.changed_blocks)

\* A partial delta of two blocks away from the origin, of a source frame
\* with row padding and pixels of both colours, leaving a pixel at zero.
C28_Witness ==
    /\ c_last.op = "apply" /\ s_config.mode = "direct" /\ c_last.times = 1
    /\ ~c_last.delta.full_frame
    /\ c_last.delta.changed_blocks
           = <<[x |-> 1, y |-> 0, width |-> 1, height |-> 2],
               [x |-> 0, y |-> 1, width |-> 2, height |-> 1]>>
    /\ c_last.raw.stride > c_last.raw.width * c_last.bpp
    /\ ByteAt(c_last.raw, 1, 1, c_last.bpp - 1) # ByteAt(c_last.raw, 1, 0, c_last.bpp - 1)
    /\ BufferByte(c_decoder, 0, 0, 0, c_last.bpp) = 0
    /\ BufferByte(c_decoder, 1, 1, c_last.bpp - 1, c_last.bpp)
           = ByteAt(c_last.raw, 1, 1, c_last.bpp - 1)

\* C29 as stated: after a frame was lost in transit, the following frame,
\* full or delta, once applied, leaves the receiver's frame buffer equal to
\* the sender's source frame; and applying a frame twice gives what
\* applying it once gives.
C29_Original ==
    (c_last.op = "apply" /\ s_config.mode = "service")
        => /\ c_last.lost => Shows(c_last.once, c_last.raw, c_last.bpp)
           /\ c_last.times = 2 => c_decoder = c_last.once

\* C29, what the pipeline gives: a full frame, after a loss or not, leaves
\* the frame buffer equal to the sender's source frame; a delta frame does
\* so when the frame buffer showed the frame the delta was computed
\* against; and applying a frame twice gives what applying it once gives.
C29_FullFrameSupersedes ==
    (c_last.op = "apply" /\ s_config.mode = "service")
        => /\ c_last.kind = "Ok"
           /\ (\/ c_last.frame.is_full_frame
               \/ /\ c_last.base # NoFrame
                  /\ Shows(c_last.before, c_last.base, c_last.bpp))
                  => Shows(c_last.once, c_last.raw, c_last.bpp)
           /\ c_last.times = 2 => c_decoder = c_last.once

\* A frame was lost, the next one is a full frame for a stored frame of
\* another size, and it was applied twice.
C29_Witness ==
    /\ c_last.op = "apply" /\ s_config.mode = "service"
    /\ c_last.lost
    /\ c_last.frame.is_full_frame
    /\ c_last.base # NoFrame
    /\ c_last.base.width # c_last.raw.width
    /\ c_last.before.buf_width = c_last.base.width
    /\ c_last.times = 2
    /\ Shows(c_decoder, c_last.raw, c_last.bpp)


\* ------------------------------------------------------------------------
\* BandwidthEstimator claims
\* ------------------------------------------------------------------------

RECURSIVE SumBytes(_)
SumBytes(samples) ==
    IF samples = <<>> THEN 0
    ELSE Head(samples).bytes + SumBytes(Tail(samples))

\* The instants of the recorded samples never decrease, as those of
\* Instant::now() do.
NonDecreasing(history) ==
    \A i, j \in 1..Len(history) : i <= j => history[i].when <= history[j].when

\* The sample is not older than the window at the given instant.
InWindow(sample, at, window) == at - sample.when <= window

\* C31 as stated: after every record_at call no retained sample is older
\* than the window relative to the sample just recorded, and total_bytes
\* is the sum of the bytes of the retained samples.
C31_Original ==
    bw_last.op = "record_at"
        => /\ \A i \in 1..Len(bw_samples) :
                  InWindow(bw_samples[i], bw_last.when, bw_window)
           /\ bw_total_bytes = SumBytes(bw_samples)

\* C31 for what record_at gives: total_bytes is always the sum of the
\* bytes of the retained samples, the sample just recorded is retained,
\* and, when the instants recorded never decrease, the retained samples
\* are exactly the recorded samples that are not older than the window.
C31_EvictsInOrder ==
    bw_last.op = "record_at"
        => /\ bw_total_bytes = SumBytes(bw_samples)
           /\ bw_samples # <<>>
           /\ bw_samples[Len(bw_samples)]
                  = [when |-> bw_last.when, bytes |-> bw_last.bytes]
           /\ NonDecreasing(bw_history)
                  => bw_samples
                         = SelectSeq(bw_history,
                                     LAMBDA s : InWindow(s, bw_last.when,
                                                         bw_window))

\* Three samples at increasing instants: the first is older than the
\* window and evicted, the second is exactly one window old and retained.
C31_Witness ==
    /\ bw_last.op = "record_at"
    /\ Len(bw_history) = 3
    /\ NonDecreasing(bw_history)
    /\ bw_history[1].bytes > 0
    /\ bw_last.when - bw_history[1].when > bw_window
    /\ bw_last.when - bw_history[2].when = bw_window
    /\ Len(bw_samples) = 2
    /\ bw_total_bytes = bw_history[2].bytes + bw_history[3].bytes
    /\ bw_total_bytes > 0


\* ------------------------------------------------------------------------
\* ScreenService stop claims
\* ------------------------------------------------------------------------

\* run has returned, with Ok or with an error.
RunReturned == sv_pc \in {"done", "failed"}

\* C32 as stated: once stop is signalled, at any point relative to the
\* start of run, run begins no further iteration and returns; and the
\* slave session that stored false and awaits the capture task goes back
\* to accepting.
C32_Original ==
    /\ [](sv_stop # "no" => sv_entered = 0)
    /\ (sv_stop # "no") ~> RunReturned
    /\ (ss_pc = "await") ~> (ss_pc = "accept")

\* C32 for a stop signalled after run stored true: run begins no further
\* iteration and returns, and the session awaiting it goes back to
\* accepting.
C32_StopAfterStart ==
    /\ [](sv_stop = "after_start" => sv_entered = 0)
    /\ (sv_stop = "after_start") ~> RunReturned
    /\ (ss_pc = "await" /\ sv_stop = "after_start") ~> (ss_pc = "accept")

\* The session stored false while run was inside an iteration that had
\* sent a frame; run returned Ok and the session ended.
C32_Witness ==
    /\ sv_stop = "after_start"
    /\ sv_pc = "done"
    /\ sv_frame_number > 0
    /\ sv_entered = 0
    /\ ss_pc = "accept"
    /\ ss_sessions = 1


\* ------------------------------------------------------------------------
\* ScreenClient stop claims
\* ------------------------------------------------------------------------

\* run has returned, with Ok or with an error.
ClientReturned == cl_pc \in {"done", "failed"}

\* run is inside receive_frame and the socket holds no datagram.
WaitingOnSocket == cl_pc = "receive" /\ cl_socket = <<>>

\* C33 as stated: after stop is signalled, run returns, even if no
\* further datagram arrives.
C33_Original == (cl_stop # "no") ~> ClientReturned

\* C33 for what run does: after a stop signalled once run stored true,
\* run returns or is waiting in receive_frame on an empty socket, and
\* receive_frame returns at most one more frame.
C33_ReturnsAfterNextFrame ==
    /\ [](cl_stop = "after_start" => cl_frames <= 1)
    /\ (cl_stop = "after_start") ~> (ClientReturned \/ WaitingOnSocket)
    /\ [](WaitingOnSocket => ~ENABLED ClientStep)

\* Stop was signalled while run waited in receive_frame; the frame's
\* datagrams arrived afterwards, the frame was applied and run returned Ok.
C33_Witness ==
    /\ cl_stop = "after_start"
    /\ cl_frames = 1
    /\ cl_pc = "done"
    /\ cl_sent >= 2
    /\ cl_socket = <<>>


\* ------------------------------------------------------------------------
\* Task emission claims
\* ------------------------------------------------------------------------

\* The task has reached its terminal outcome and still has its event to
\* send.
Emitting(t) == tpc[t] = "emitting"

\* C34 as stated: a task that has reached its terminal outcome can deliver
\* its event without waiting on the consumer, however many events are
\* queued and unprocessed.
C34_Original ==
    \A t \in TaskIds : Emitting(t) => ENABLED Emit(t)

\* C34 for the bounded channel: the channel never holds more events than
\* it has slots, and a task that has reached its terminal outcome can
\* deliver its event exactly when a slot is free; with every slot taken it
\* waits until the pool receives an event.
C34_BlocksWhenFull ==
    /\ Len(chan) <= EventCap
    /\ \A t \in TaskIds :
           Emitting(t) => (ENABLED Emit(t) <=> Len(chan) < EventCap)

\* Every slot holds an unprocessed event of a task that has ended, and
\* another task has its terminal event to send and cannot send it.
C34_Witness ==
    /\ Len(chan) = EventCap
    /\ \E t, u \in TaskIds :
           /\ tpc[t] = "done"
           /\ Emitting(u)
           /\ ~ENABLED Emit(u)
           /\ Len(toutbox[u]) = 1


\* ------------------------------------------------------------------------
\* Response stream claims
\* ------------------------------------------------------------------------

\* What the flag cell of a header says: terminal, continuation or single.
KindOfMask(mask) ==
    IF (mask \div FINAL_FRAGMENT) % 2 = 1 THEN "terminal"
    ELSE IF (mask \div STREAMING) % 2 = 1 THEN "continuation"
    ELSE "single"

ShellKindName(kind) ==
    CASE kind = "terminal" -> "Exit"
      [] kind = "continuation" -> "OutputChunk"
      [] OTHER -> "LegacySingle"

FileKindName(kind) ==
    CASE kind = "terminal" -> "HashVerification"
      [] kind = "continuation" -> "StreamingChunk"
      [] OTHER -> "SingleResponse"

StreamDrained == st_wire = <<>> /\ st_buf = <<>>

\* C36 as stated: whatever the sizes of the chunks in which a peer's
\* well-formed packets reach the buffer, decode never returns an error and
\* yields exactly those packets in order.
C36_Original ==
    /\ st_err = NoError
    /\ IsPrefix(st_out, st_sent)
    /\ StreamDrained => st_out = st_sent

\* C36 for what decode gives: the packets yielded are the packets sent, in
\* order; the only error is FrameTooLarge, returned when a decode call is
\* given more than MAX_FRAME_SIZE bytes; while no call is given more,
\* there is no error and a drained stream has yielded every packet.
C36_ErrorOnlyOverLimit ==
    /\ IsPrefix(st_out, st_sent)
    /\ st_err # NoError
           => /\ st_err = Fail("FrameTooLarge")
              /\ st_seen > MAX_FRAME_SIZE
              /\ Len(st_buf) > MAX_FRAME_SIZE
    /\ st_seen <= MAX_FRAME_SIZE => st_err = NoError
    /\ (st_err = NoError /\ StreamDrained) => st_out = st_sent

\* A frame of the maximum size followed by another packet, read in chunks
\* that never put more than MAX_FRAME_SIZE bytes before decode, the first
\* chunk ending inside the header: both packets were yielded.
C36_Witness ==
    /\ Len(st_sent) = 2
    /\ Len(to_bytes(st_sent[1]).bytes) = MAX_FRAME_SIZE
    /\ st_sent[2].payload # <<>>
    /\ st_out = st_sent
    /\ StreamDrained
    /\ st_seen = MAX_FRAME_SIZE
    /\ st_err = NoError


\* ------------------------------------------------------------------------
\* ScreenTransport claims: what receive_frame returns
\* ------------------------------------------------------------------------

\* receive_frame has left its first loop with a frame header.
HeaderTaken == r_pc \in {"chunks", "done"}

\* The frame header receive_frame holds is the one send_frame wrote for
\* the i-th frame sent.
HeaderOf(i) == r_header = FrameHeader_decode(HeaderDatagram(i)).header

\* The bytes receive_frame keeps of a datagram it takes for a chunk.
ChunkPayload(datagram) ==
    LET buf == recv_from(datagram, t_mtu)
    IN  SubSeq(buf, ChunkHeader_SIZE + 1, Len(buf))

\* A copy of the frame header datagram of the i-th frame sits in a chunk
\* slot.
HeaderStoredAsChunk(i) ==
    \E c \in DOMAIN r_chunks : r_chunks[c] = ChunkPayload(HeaderDatagram(i))

\* C37 as stated: under arbitrary loss, duplication and reordering, every
\* frame receive_frame returns has the frame_number, width, height,
\* is_full_frame and data of some frame passed to send_frame; the frame
\* header it works with was never read from a chunk datagram.
C37_Original ==
    /\ r_pc = "done"
          => \E i \in 1..Len(t_sent) : SameFrame(r_result, t_sent[i].frame)
    /\ HeaderTaken => \E i \in 1..Len(t_sent) : HeaderOf(i)

\* C37, what receive_frame does: it takes any datagram of FrameHeader::SIZE
\* bytes or more as the frame header, a chunk datagram included; every
\* chunk it stores comes from a datagram carrying the sequence number of
\* that header, so chunks of different frames are never combined; and when
\* the header is that of a frame sent and no second copy of the header
\* datagram was stored as a chunk, the frame returned is that frame.
C37_SequenceKeepsFramesApart ==
    /\ HeaderTaken
          => /\ \E d \in r_seen :
                    /\ Len(recv_from(d, t_mtu)) >= FrameHeader_SIZE
                    /\ r_header = FrameHeader_decode(recv_from(d, t_mtu)).header
             /\ \A c \in DOMAIN r_chunks :
                    \/ r_chunks[c] = NoChunk
                    \/ \E d \in r_seen :
                           /\ d[1] = r_header.sequence
                           /\ r_chunks[c] = ChunkPayload(d)
    /\ \A i \in 1..Len(t_sent) :
           (HeaderTaken /\ HeaderOf(i))
               => /\ \A c \in DOMAIN r_chunks :
                         \/ r_chunks[c] = NoChunk
                         \/ \E d \in ChunkDatagrams(i) \cup {HeaderDatagram(i)} :
                                r_chunks[c] = ChunkPayload(d)
                  /\ (r_pc = "done" /\ ~HeaderStoredAsChunk(i))
                         => SameFrame(r_result, t_sent[i].frame)

\* The second frame sent is returned by a call that read a chunk of the
\* first frame before the header, a datagram twice, every chunk datagram
\* of the first frame, and the chunks of the second in descending order.
C37_Witness ==
    /\ Len(t_sent) = 2
    /\ r_pc = "done"
    /\ HeaderOf(2) /\ ~HeaderStoredAsChunk(2)
    /\ r_first \in ChunkDatagrams(1)
    /\ ChunkDatagrams(1) \subseteq r_seen
    /\ Len(r_order) >= 2 /\ r_order[1] > r_order[2]
    /\ r_dup
    /\ SameFrame(r_result, t_sent[2].frame)


\* ------------------------------------------------------------------------
\* Capture pipeline claims: frames delivered in order
\* ------------------------------------------------------------------------

\* The service has sent frames and the client has applied every one of
\* them, in order; nothing is in transit.
AllApplied ==
    /\ c_last.op = "apply" /\ c_last.in_order
    /\ s_config.mode = "service"
    /\ s_pc = "capture" /\ ~s_lost

\* C38: when every frame the pipeline produces (detect, then encode, with
\* unchanged frames skipped) is delivered in order and applied, each apply
\* succeeds and leaves the frame buffer equal to the packed pixels of the
\* source frame just captured, and the buffer still shows the frame
\* captured last after any number of skipped unchanged frames.
C38_FollowsSource ==
    /\ (c_last.op = "apply" /\ c_last.in_order /\ s_config.mode = "service")
          => /\ c_last.kind = "Ok"
             /\ Shows(c_last.once, c_last.raw, c_last.bpp)
    /\ AllApplied
          => Shows(c_decoder, s_previous,
                   bytes_per_pixel(s_config.source.format))

\* Three frames sent and applied in order, the last a partial delta of one
\* block which leaves a lit pixel of the frame before untouched; the rows
\* of the source are padded.
C38_Witness ==
    /\ AllApplied
    /\ s_frame_count = 3
    /\ c_last.times = 1
    /\ ~c_last.frame.is_full_frame
    /\ Len(c_last.delta.changed_blocks) = 1
    /\ \E p \in PixelsOf(<<c_last.raw.width, c_last.raw.height>>) :
           /\ ~Covered(p, c_last.delta)
           /\ ByteAt(c_last.raw, p[1], p[2], c_last.bpp - 1) = 2
           /\ BufferByte(c_decoder, p[1], p[2], c_last.bpp - 1, c_last.bpp) = 2
    /\ c_last.raw.stride > c_last.raw.width * c_last.bpp
    /\ s_previous = c_last.raw


\* ------------------------------------------------------------------------
\* TaskPool claims: tracking of running tasks
\* ------------------------------------------------------------------------

\* Task t is the entry of its request id in the pool's map: is_active of
\* the id is true and cancel_task of the id signals t.
Tracked(t) == is_active(treq[t]) /\ tasks[treq[t]] = t

\* No other task was spawned with the request id of t.
OwnId(t) ==
    \A u \in TaskIds \ {t} : tpc[u] # "unspawned" => treq[u] # treq[t]

\* C39 as stated: every task whose body is still running is tracked by the
\* pool and reachable by cancellation until its own terminal event has
\* been processed, also when spawn is called again with a request id that
\* is already active.
C39_Original ==
    \A t \in TaskIds :
        (tpc[t] # "unspawned" /\ ~Processed(t)) => Tracked(t)

\* C39, what the pool does: the entry of a request id is the task spawned
\* last with that id, or none; a task whose request id no other task was
\* given is tracked from its spawn until its terminal event has been
\* processed, and not after.
C39_TracksLastSpawned ==
    /\ \A id \in ReqIds :
           is_active(id)
               => /\ treq[tasks[id]] = id
                  /\ \A u \in TaskIds :
                         (tpc[u] # "unspawned" /\ treq[u] = id) => u <= tasks[id]
    /\ \A t \in TaskIds :
           (tpc[t] # "unspawned" /\ OwnId(t))
               => (Tracked(t) <=> ~Processed(t))

\* Two tasks with different request ids: the terminal event of the first
\* has been processed and its entry is gone, the second is still running,
\* tracked, and was signalled by cancel_task.
C39_Witness ==
    /\ \A t \in TaskIds : tpc[t] # "unspawned" /\ OwnId(t)
    /\ Processed(1) /\ ~is_active(treq[1])
    /\ tpc[2] = "running" /\ Tracked(2)
    /\ ttoken[2] /\ tsignal[2] = "open" /\ cancelRet = "true"


\* ------------------------------------------------------------------------
\* FrameDecoder claims: invalid delta payloads
\* ------------------------------------------------------------------------

\* The payload applied stops before the end of what its block count
\* announces: in a block header or in the pixels of a block.
Truncated ==
    \/ c_last.declared > Len(c_last.blocks)
    \/ c_last.cut < Len(FullPayload(c_last.declared, c_last.blocks, c_last.bpp))

\* The header of the i-th block lies whole in the payload applied.
HeaderRead(i) ==
    c_last.cut >= 1 + Len(PayloadCells(SubSeq(c_last.blocks, 1, i - 1),
                                       c_last.bpp)) + 4

\* The block lies inside the frame of the payload applied.
InsideFrame(b) ==
    /\ b.x + b.width <= c_last.frame.width
    /\ b.y + b.height <= c_last.frame.height

\* The block has pixels outside the frame.
ExtendsOutside(b) == b.width > 0 /\ b.height > 0 /\ ~InsideFrame(b)

\* A row of the block, copied at (y + row) * row_stride + x * bpp, ends past
\* the end of the frame buffer.
RowPastBuffer(b) ==
    \E row \in 0..(b.height - 1) :
        ((b.y + row) * c_last.frame.width + b.x + b.width) * c_last.bpp
            > c_last.frame.width * c_last.frame.height * c_last.bpp

\* C40 as stated: FrameDecoder::apply never panics on invalid input: for
\* any decompressed delta payload it returns Ok or a typed error;
\* truncation in a block header or in block pixel data is an error, and a
\* block that extends outside the frame buffer is rejected with an error.
C40_Original ==
    c_last.op = "apply_payload"
        => /\ c_last.kind \in {"Ok", "Err"}
           /\ Truncated => c_last.kind = "Err"
           /\ (\E i \in 1..Len(c_last.blocks) :
                  HeaderRead(i) /\ ExtendsOutside(c_last.blocks[i]))
                 => c_last.kind = "Err"

\* C40, what apply does: when every block lies inside the frame it returns
\* an error for a truncated payload and Ok otherwise; it panics only on a
\* block of which a row ends past the end of the frame buffer, and does so
\* whenever the payload is whole and has such a block.
C40_TruncationIsAnError ==
    c_last.op = "apply_payload"
        => /\ c_last.kind \in {"Ok", "Err", "Panic"}
           /\ (\A i \in 1..Len(c_last.blocks) : InsideFrame(c_last.blocks[i]))
                 => c_last.kind = IF Truncated THEN "Err" ELSE "Ok"
           /\ c_last.kind = "Panic"
                 => \E i \in 1..Len(c_last.blocks) :
                        HeaderRead(i) /\ RowPastBuffer(c_last.blocks[i])
           /\ (~Truncated /\ \E i \in 1..Len(c_last.blocks) :
                                 RowPastBuffer(c_last.blocks[i]))
                 => c_last.kind = "Panic"

\* A payload of two blocks inside the frame, cut in the pixels of the
\* second: the first block was copied and the call returned an error.
C40_Witness ==
    /\ c_last.op = "apply_payload"
    /\ Len(c_last.blocks) = 2 /\ c_last.declared = 2
    /\ \A i \in 1..2 : InsideFrame(c_last.blocks[i])
    /\ c_last.blocks[1].width * c_last.blocks[1].height > 0
    /\ HeaderRead(2)
    /\ c_last.cut = Len(FullPayload(2, c_last.blocks, c_last.bpp)) - 1
    /\ c_last.kind = "Err"
    /\ 7 \in {c_decoder.frame_buffer[i] : i \in 1..Len(c_decoder.frame_buffer)}

====
